---- MODULE Spec2Model ----
(***************************************************************************)
(* ShareZidi v3 signalling relay: the endpoint registry                    *)
(* (ConnectionManager), the per-session read loop (websocket_endpoint) and *)
(* the transfer bookkeeping (P2PTransferManager / WebRTCManager) of        *)
(* sharezidi-v3-python/advanced_server.py and webrtc_manager.py, together  *)
(* with the read loops of debug_server_final.py and debug_server.py.       *)
(*                                                                         *)
(* One action is one iteration of a session's read loop: receive_text,     *)
(* json.loads, the handler, and the except clauses that end the session.   *)
(* A handler is an operator from the state and the message to a result:    *)
(* the managers' state after it, the send calls it made in order with      *)
(* their outcome, and whether an exception left it.                        *)
(***************************************************************************)
EXTENDS Integers, Sequences, FiniteSets, TLC

\* ------------------------------------------------------------------ bounds
MaxSockets == 2
MaxTransfers == 1
MaxClock == 1
MaxChunks == 1
MaxUuids == 1

Clients == {"alice", "bob"}
Sockets == 1..MaxSockets
\* Python's None, and a value that is present
None == << >>
Some(v) == <<v>>

VARIABLES
    server,              \* which server module's websocket_endpoint is running
    sessions,            \* per socket: the read loop's position and its client_id
    broken,              \* sockets whose transport has dropped: send_text raises
    active_connections,  \* manager.active_connections: client_id -> socket
    client_info,         \* manager.client_info: client_id -> the session that set it
    device_ids,          \* manager.device_ids (debug servers): client_id -> the session it was made for
    active_transfers,    \* p2p_transfer_manager.active_transfers
    transfer_stats,      \* p2p_transfer_manager.transfer_stats
    webrtc_connections,  \* webrtc_manager.active_connections
    rtc_transfers,       \* webrtc_transfer.py: the WebRTCFileTransfer objects, by transfer_id
    rtc_active_transfers, \* webrtc_transfer.py: the keys of WebRTCTransferManager.active_transfers
    entries,             \* the keys of manager.active_connections in the order a loop over it visits them
    broadcasts,          \* per socket: the broadcast loop that the session's handler is running
    inbox,               \* per socket: how many frames the client has sent, and those that receive_text has not returned yet
    handling,            \* per socket: the sends that its running handler has still to make, none when it is in receive_text
    wire,                \* per socket: the frames that the chunk handlers have written to it, in order
    p2p_active_transfers, \* p2p_transfer.py: P2PTransferManager.active_transfers
    active_streams       \* streaming_optimizer.py: streaming_engine.active_streams

vars == <<server, sessions, broken, active_connections, client_info, device_ids,
          active_transfers, transfer_stats, webrtc_connections, rtc_transfers,
          rtc_active_transfers, entries, broadcasts, inbox, handling, wire,
          p2p_active_transfers, active_streams>>

registry == <<sessions, active_connections, client_info>>
managers == <<active_transfers, transfer_stats, webrtc_connections>>
peers == <<rtc_transfers, rtc_active_transfers>>
fanout == <<entries, broadcasts>>
queues == <<inbox, handling, wire>>
engines == <<p2p_active_transfers, active_streams>>

\* no broadcast loop is running
Idle ==
    [state |-> "idle", used |-> 0, pos |-> 0, target |-> "", conn |-> 0, exclude |-> "",
     todo |-> {}, disturbed |-> FALSE]

NoBroadcasts ==
    /\ entries = << >>
    /\ broadcasts = [s \in Sockets |-> Idle]

\* no frame is waiting, being handled or written
NoFrames ==
    /\ inbox = [s \in Sockets |-> [sent |-> 0, frames |-> << >>]]
    /\ handling = [s \in Sockets |-> << >>]
    /\ wire = [s \in Sockets |-> << >>]

\* the transfer manager of p2p_transfer.py and the streaming engine hold nothing
NoEngines ==
    /\ p2p_active_transfers = << >>
    /\ active_streams = << >>

\* ------------------------------------------------------------ the registry
Registered(c) == c \in DOMAIN active_connections

\* A transport send on socket s succeeds iff the session is open and not dropped.
CanSend(s) == sessions[s].pc = "open" /\ s \notin broken

Remove(f, k) == [x \in DOMAIN f \ {k} |-> f[x]]
Put(f, k, v) == [x \in DOMAIN f \cup {k} |-> IF x = k THEN v ELSE f[x]]

\* websocket.send_text(json.dumps(msg)) on the session's own socket: raises on failure
send_text(s, msg) ==
    [fn |-> "send_text", client_id |-> sessions[s].client_id, sock |-> s,
     registered |-> TRUE, delivered |-> CanSend(s), ret |-> CanSend(s),
     raised |-> ~CanSend(s), msg |-> msg]

send_to_client_raising(client_id, msg) ==
    IF Registered(client_id)
    THEN [fn |-> "send_to_client", client_id |-> client_id,
          sock |-> active_connections[client_id], registered |-> TRUE,
          delivered |-> CanSend(active_connections[client_id]),
          ret |-> CanSend(active_connections[client_id]),
          raised |-> ~CanSend(active_connections[client_id]), msg |-> msg]
    ELSE [fn |-> "send_to_client", client_id |-> client_id, sock |-> 0,
          registered |-> FALSE, delivered |-> FALSE, ret |-> FALSE, raised |-> TRUE,
          msg |-> msg]

\* ConnectionManager.send_to_client: False for an unknown id and for a failed send
send_to_client(client_id, msg) ==
    IF Registered(client_id)
    THEN [fn |-> "send_to_client", client_id |-> client_id,
          sock |-> active_connections[client_id], registered |-> TRUE,
          delivered |-> CanSend(active_connections[client_id]),
          ret |-> CanSend(active_connections[client_id]),
          raised |-> FALSE, msg |-> msg]
    ELSE [fn |-> "send_to_client", client_id |-> client_id, sock |-> 0,
          registered |-> FALSE, delivered |-> FALSE, ret |-> FALSE, raised |-> FALSE,
          msg |-> msg]

\* ConnectionManager.disconnect, on the two dictionaries
disconnect_connections(client_id) ==
    IF client_id \in DOMAIN active_connections
    THEN Remove(active_connections, client_id) ELSE active_connections

disconnect_info(client_id) ==
    IF client_id \in DOMAIN client_info
    THEN Remove(client_info, client_id) ELSE client_info

\* The result of a handler: the managers' state after it, the sends it made, and
\* whether an exception left it.
Result(tr, st, wc, out, raised) ==
    [tr |-> tr, st |-> st, wc |-> wc, out |-> out, raised |-> raised]

\* The calls of a handler in order: the ones made are those up to the first that
\* raises, and the handler is left by an exception iff one of them raised.
RECURSIVE UpToRaise(_)
UpToRaise(calls) ==
    IF calls = << >> THEN << >>
    ELSE IF Head(calls).raised THEN <<Head(calls)>>
    ELSE <<Head(calls)>> \o UpToRaise(Tail(calls))

Raised(calls) == \E i \in DOMAIN calls : calls[i].raised

Unchanged(out, raised) ==
    Result(active_transfers, transfer_stats, webrtc_connections, out, raised)

\* ------------------------------------------------- ids, clock and numbers
\* transfer_{sender}_{receiver}_{timestamp}, webrtc_{sender}_{receiver}_{timestamp}
TransferId(sender_id, receiver_id, t) == <<"transfer", sender_id, receiver_id, t>>
ConnectionId(sender_id, receiver_id, t) == <<"webrtc", sender_id, receiver_id, t>>
\* str(uuid.uuid4()): one of the values it can return
UuidId(n) == <<"uuid", "-", "-", n>>

SetMax(S) == CHOOSE x \in S : \A y \in S : y <= x

\* datetime.now() never runs backwards: a new reading is at least the latest one
\* that the managers' records hold.
Readings ==
    {id[4] : id \in DOMAIN active_transfers \cup DOMAIN webrtc_connections}
    \cup {active_transfers[id].completed_at[1] :
            id \in {x \in DOMAIN active_transfers : active_transfers[x].completed_at # None}}

LastReading == IF Readings = {} THEN 0 ELSE SetMax(Readings)

RECURSIVE GCD(_, _)
GCD(a, b) == IF b = 0 THEN a ELSE GCD(b, a % b)

\* the number n/d (d > 0) in lowest terms: Python's float value of n/d
Frac(n, d) == LET g == GCD(IF n < 0 THEN -n ELSE n, d) IN <<n \div g, d \div g>>
Num(n) == <<n, 1>>

\* ------------------------------------------------------------ client input
\* file_info as the client sends it: missing or empty, a JSON object declaring
\* total_chunks, or a JSON string
NoFileInfo == [kind |-> "none"]
StrFileInfo == [kind |-> "str"]
DictFileInfo(k) == [kind |-> "dict", name |-> "x.pdf", size |-> 1000, total_chunks |-> k]
FileInfos == {NoFileInfo, StrFileInfo} \cup {DictFileInfo(k) : k \in 1..MaxChunks}

FileTransferStartMsgs ==
    {[type |-> "file_transfer_start", receiver_id |-> r, file_info |-> f, use_webrtc |-> w] :
        r \in Clients \cup {""}, f \in FileInfos, w \in BOOLEAN}

\* the transfer ids a client can name: the ones the relay can have announced on
\* either path. A uuid is also an id that the managers hold no record of.
KnownIds == DOMAIN active_transfers \cup {UuidId(u) : u \in 1..MaxUuids}

ChunkMsg(id, data, index, total) ==
    [type |-> "file_chunk", transfer_id |-> id, chunk_data |-> data,
     chunk_index |-> index, total_chunks |-> total]

\* well-formed chunks, and one message for each way of being malformed
FileChunkMsgs ==
    {ChunkMsg(Some(id), "data", Some(i), Some(k)) :
        id \in KnownIds, i \in 0..MaxChunks, k \in 1..MaxChunks}
    \cup {ChunkMsg(None, "data", Some(0), Some(1)),
          ChunkMsg(Some(UuidId(1)), "", Some(0), Some(1)),
          ChunkMsg(Some(UuidId(1)), "data", None, Some(1))}
    \cup {ChunkMsg(Some(id), "data", Some(0), k) : id \in KnownIds, k \in {None, Some(0)}}

\* received_progress of a chunk_ack: left out (the default 0) or out of range
AckReports == {Num(0), Num(150)}
\* progress of a transfer_progress: out of range either way, or left out
ProgressReports == {Num(-5), Num(150), None}

ChunkAckMsgs ==
    {[type |-> "chunk_ack", transfer_id |-> Some(id), chunk_index |-> i, received_progress |-> p] :
        id \in KnownIds, i \in {Some(0), None}, p \in AckReports}

\* bytes_transferred and network_quality are left out: message.get gives the defaults
TransferProgressMsgs ==
    {[type |-> "transfer_progress", transfer_id |-> Some(id), progress |-> p,
      bytes_transferred |-> 0, network_quality |-> "unknown"] :
        id \in KnownIds, p \in ProgressReports}

TransferCompleteMsgs ==
    {[type |-> "transfer_complete", transfer_id |-> Some(id)] : id \in KnownIds}

\* ---------------------------------------------------------- webrtc_manager
\* WebRTCManager.initiate_connection, reading the clock as t
initiate_connection(sender_id, receiver_id, file_info, t) ==
    Put(webrtc_connections, ConnectionId(sender_id, receiver_id, t),
        [sender_id |-> sender_id, receiver_id |-> receiver_id, file_info |-> file_info,
         status |-> "initiating", ice_candidates |-> << >>, offer |-> None, answer |-> None])

NewTransfer(transfer_id, connection_id, sender_id, receiver_id, file_info) ==
    [transfer_id |-> transfer_id, connection_id |-> connection_id,
     sender_id |-> sender_id, receiver_id |-> receiver_id, file_info |-> file_info,
     status |-> "pending", progress |-> Num(0), chunks_sent |-> 0, chunks_received |-> 0,
     total_chunks |-> file_info.total_chunks, completed_at |-> None]

NewStats == [bytes_transferred |-> 0, chunks_acknowledged |-> 0, network_quality |-> "unknown"]

\* P2PTransferManager.start_transfer, reading the clock as t1 (the transfer id) and
\* then t2 (the connection id). file_info.get raises on a file_info that is not a
\* JSON object, after the connection record was made.
start_transfer(sender_id, receiver_id, file_info, t1, t2) ==
    LET transfer_id == TransferId(sender_id, receiver_id, t1)
        connection_id == ConnectionId(sender_id, receiver_id, t2)
        wc == initiate_connection(sender_id, receiver_id, file_info, t2)
    IN IF file_info.kind # "dict"
       THEN [raised |-> TRUE, transfer_id |-> transfer_id, connection_id |-> connection_id,
             tr |-> active_transfers, st |-> transfer_stats, wc |-> wc]
       ELSE [raised |-> FALSE, transfer_id |-> transfer_id, connection_id |-> connection_id,
             tr |-> Put(active_transfers, transfer_id,
                        NewTransfer(transfer_id, connection_id, sender_id, receiver_id, file_info)),
             st |-> Put(transfer_stats, transfer_id, NewStats),
             wc |-> wc]

update_transfer_progress_completing(transfer_id, progress, chunks_sent, chunks_received) ==
    IF transfer_id \in DOMAIN active_transfers
    THEN [active_transfers EXCEPT
            ![transfer_id].progress = progress,
            ![transfer_id].chunks_sent = IF chunks_sent # None THEN chunks_sent[1] ELSE @,
            ![transfer_id].chunks_received =
                IF chunks_received # None THEN chunks_received[1] ELSE @,
            ![transfer_id].status =
                IF chunks_received = Some(active_transfers[transfer_id].total_chunks)
                THEN "completed" ELSE @]
    ELSE active_transfers

\* P2PTransferManager.update_transfer_progress; chunks_sent and chunks_received are
\* None when the caller does not pass them
update_transfer_progress(transfer_id, progress, chunks_sent, chunks_received) ==
    IF transfer_id \in DOMAIN active_transfers
    THEN [active_transfers EXCEPT
            ![transfer_id].progress = progress,
            ![transfer_id].chunks_sent = IF chunks_sent # None THEN chunks_sent[1] ELSE @,
            ![transfer_id].chunks_received =
                IF chunks_received # None THEN chunks_received[1] ELSE @]
    ELSE active_transfers

complete_transfer_keeping_status(transfer_id, t) ==
    IF transfer_id \in DOMAIN active_transfers
    THEN [active_transfers EXCEPT
            ![transfer_id].progress = Num(100),
            ![transfer_id].completed_at = Some(t)]
    ELSE active_transfers

\* P2PTransferManager.complete_transfer, reading the clock as t
complete_transfer(transfer_id, t) ==
    IF transfer_id \in DOMAIN active_transfers
    THEN [active_transfers EXCEPT
            ![transfer_id].status = "completed",
            ![transfer_id].progress = Num(100),
            ![transfer_id].completed_at = Some(t)]
    ELSE active_transfers

\* ------------------------------------------------------- advanced_server.py
Init ==
    /\ server = "advanced_server"
    /\ sessions = [s \in Sockets |-> [pc |-> "new", client_id |-> ""]]
    /\ broken = {}
    /\ active_connections = << >>
    /\ client_info = << >>
    /\ device_ids = << >>
    /\ active_transfers = << >>
    /\ transfer_stats = << >>
    /\ webrtc_connections = << >>
    /\ rtc_transfers = << >>
    /\ rtc_active_transfers = {}
    /\ NoBroadcasts
    /\ NoFrames
    /\ NoEngines

\* websocket_endpoint up to the try: manager.connect(websocket, client_id, client_info).
\* Sockets are taken in order, and the first client to connect is the one called alice.
Connect(s, c) ==
    /\ server = "advanced_server"
    /\ sessions[s].pc = "new"
    /\ \A t \in Sockets : t < s => sessions[t].pc # "new"
    /\ s = 1 => c = "alice"
    /\ sessions' = [sessions EXCEPT ![s] = [pc |-> "open", client_id |-> c]]
    /\ active_connections' = Put(active_connections, c, s)
    /\ client_info' = Put(client_info, c, [session |-> s])
    /\ UNCHANGED <<server, peers, engines, fanout, queues, broken, device_ids, managers>>

\* The peer goes away without a close handshake: sends on the socket now raise.
Drop(s) ==
    /\ sessions[s].pc = "open"
    /\ s \notin broken
    /\ broken' = broken \cup {s}
    /\ UNCHANGED <<server, peers, engines, fanout, queues, registry, device_ids, managers>>

\* The end of a session's read loop in advanced_server: both except clauses call
\* manager.disconnect(client_id), which sends nothing and touches no transfer.
EndSession(s) ==
    /\ sessions' = [sessions EXCEPT ![s].pc = "closed"]
    /\ active_connections' = disconnect_connections(sessions[s].client_id)
    /\ client_info' = disconnect_info(sessions[s].client_id)

\* receive_text raises WebSocketDisconnect: a normal close or a dropped transport
ReceiveDisconnect(s) ==
    /\ server = "advanced_server"
    /\ sessions[s].pc = "open"
    /\ EndSession(s)
    /\ UNCHANGED <<server, peers, engines, fanout, queues, broken, device_ids, managers>>

\* A text frame that json.loads rejects (or that is not a JSON object, so that
\* message.get raises): except Exception
BadFrame(s) ==
    /\ server = "advanced_server"
    /\ sessions[s].pc = "open"
    /\ EndSession(s)
    /\ UNCHANGED <<server, peers, engines, fanout, queues, broken, device_ids, managers>>

\* One iteration of the read loop for a parsed message handled with result r.
Handle(s, r) ==
    /\ server = "advanced_server"
    /\ sessions[s].pc = "open"
    /\ active_transfers' = r.tr
    /\ transfer_stats' = r.st
    /\ webrtc_connections' = r.wc
    /\ IF r.raised THEN EndSession(s) ELSE UNCHANGED registry
    /\ UNCHANGED <<server, peers, engines, fanout, queues, broken, device_ids>>

\* handle_message, type "ping"
handle_ping(s, m) ==
    LET reply == send_text(s, [type |-> "pong", timestamp |-> m.timestamp])
    IN Unchanged(<<reply>>, reply.raised)

Ping(s) ==
    \E m \in {[type |-> "ping", timestamp |-> 7]} : Handle(s, handle_ping(s, m))

ErrorMsg(text) == [type |-> "error", message |-> text]

incoming_transfer_empty_file_info(transfer_id, file_info, sender_id, use_webrtc, connection_id) ==
    IF use_webrtc
    THEN [type |-> "incoming_transfer", transfer_id |-> transfer_id, file_info |-> NoFileInfo,
          sender_id |-> sender_id, use_webrtc |-> TRUE, connection_id |-> connection_id]
    ELSE [type |-> "incoming_transfer", transfer_id |-> transfer_id, file_info |-> NoFileInfo,
          sender_id |-> sender_id, use_webrtc |-> FALSE]

\* the incoming_transfer notification of either path
incoming_transfer(transfer_id, file_info, sender_id, use_webrtc, connection_id) ==
    IF use_webrtc
    THEN [type |-> "incoming_transfer", transfer_id |-> transfer_id, file_info |-> file_info,
          sender_id |-> sender_id, use_webrtc |-> TRUE, connection_id |-> connection_id]
    ELSE [type |-> "incoming_transfer", transfer_id |-> transfer_id, file_info |-> file_info,
          sender_id |-> sender_id, use_webrtc |-> FALSE]

\* the transfer_started confirmation of either path
transfer_started(transfer_id, use_webrtc, connection_id) ==
    IF use_webrtc
    THEN [type |-> "transfer_started", transfer_id |-> transfer_id, status |-> "pending",
          use_webrtc |-> TRUE, connection_id |-> connection_id]
    ELSE [type |-> "transfer_started", transfer_id |-> transfer_id, status |-> "pending",
          use_webrtc |-> FALSE]

\* handle_file_transfer_start; t1 and t2 are the clock readings of start_transfer,
\* u the value of uuid.uuid4()
handle_file_transfer_start(s, m, t1, t2, u) ==
    LET client_id == sessions[s].client_id
        started == start_transfer(client_id, m.receiver_id, m.file_info, t1, t2)
        transfer_id == IF m.use_webrtc THEN started.transfer_id ELSE UuidId(u)
        notify == send_to_client(m.receiver_id,
                      incoming_transfer(transfer_id, m.file_info, client_id, m.use_webrtc,
                                        started.connection_id))
        confirm == send_text(s, transfer_started(transfer_id, m.use_webrtc,
                                                 started.connection_id))
        failed == send_text(s, ErrorMsg("Failed to start transfer"))
        no_receiver == send_text(s, ErrorMsg("Receiver ID required"))
        no_file_info == send_text(s, ErrorMsg("File info required"))
    IN IF m.receiver_id = "" THEN Unchanged(<<no_receiver>>, no_receiver.raised)
       ELSE IF m.file_info.kind = "none" THEN Unchanged(<<no_file_info>>, no_file_info.raised)
       ELSE IF m.use_webrtc
       THEN IF started.raised
            THEN Result(started.tr, started.st, started.wc, <<failed>>, failed.raised)
            ELSE IF Raised(<<notify, confirm>>)
            THEN Result(started.tr, started.st, started.wc,
                        UpToRaise(<<notify, confirm>>) \o <<failed>>, failed.raised)
            ELSE Result(started.tr, started.st, started.wc, <<notify, confirm>>, FALSE)
       ELSE IF Raised(<<notify, confirm>>)
            THEN Unchanged(UpToRaise(<<notify, confirm>>) \o <<failed>>, failed.raised)
            ELSE Unchanged(<<notify, confirm>>, FALSE)

FileTransferStart(s) ==
    \E m \in FileTransferStartMsgs, t1 \in LastReading..MaxClock, u \in 1..MaxUuids :
      \E t2 \in t1..MaxClock :
        LET r == handle_file_transfer_start(s, m, t1, t2, u)
        IN /\ Cardinality(DOMAIN r.tr) <= MaxTransfers
           /\ Cardinality(DOMAIN r.wc) <= MaxTransfers
           /\ Handle(s, r)

\* handle_file_chunk
handle_file_chunk(s, m) ==
    LET missing == send_text(s, ErrorMsg("Missing required chunk data"))
        transfer_id == m.transfer_id[1]
        chunk_index == m.chunk_index[1]
        progress == Frac((chunk_index + 1) * 100, m.total_chunks[1])
        known == transfer_id \in DOMAIN active_transfers
        tr == IF known
              THEN update_transfer_progress(transfer_id, progress, Some(chunk_index + 1), None)
              ELSE active_transfers
        update == send_text(s, [type |-> "progress_update", transfer_id |-> transfer_id,
                                progress |-> progress, chunk_index |-> chunk_index])
        forward == send_to_client(active_transfers[transfer_id].receiver_id,
                        [type |-> "file_chunk", transfer_id |-> transfer_id,
                         chunk_data |-> m.chunk_data, chunk_index |-> chunk_index,
                         total_chunks |-> m.total_chunks[1]])
    IN IF m.transfer_id = None \/ m.chunk_data = "" \/ m.chunk_index = None
       THEN Unchanged(<<missing>>, missing.raised)
       ELSE IF m.total_chunks = None \/ m.total_chunks = Some(0)
       THEN Unchanged(<< >>, TRUE)     \* TypeError, ZeroDivisionError
       ELSE IF known
       THEN Result(tr, transfer_stats, webrtc_connections,
                   UpToRaise(<<update, forward>>), Raised(<<update, forward>>))
       ELSE Result(tr, transfer_stats, webrtc_connections, <<update>>, update.raised)

FileChunk(s) ==
    \E m \in FileChunkMsgs : Handle(s, handle_file_chunk(s, m))

\* handle_chunk_ack
handle_chunk_ack(s, m) ==
    LET transfer_id == m.transfer_id[1]
        tr == update_transfer_progress(transfer_id, m.received_progress, None,
                                       Some(m.chunk_index[1] + 1))
        ack == send_to_client(active_transfers[transfer_id].sender_id,
                    [type |-> "chunk_ack", transfer_id |-> transfer_id,
                     chunk_index |-> m.chunk_index[1],
                     received_progress |-> m.received_progress])
    IN IF transfer_id \notin DOMAIN active_transfers THEN Unchanged(<< >>, FALSE)
       ELSE IF m.chunk_index = None THEN Unchanged(<< >>, TRUE)     \* None + 1: TypeError
       ELSE Result(tr, transfer_stats, webrtc_connections, <<ack>>, ack.raised)

ChunkAck(s) ==
    \E m \in ChunkAckMsgs : Handle(s, handle_chunk_ack(s, m))

\* handle_transfer_progress
handle_transfer_progress(s, m) ==
    LET transfer_id == m.transfer_id[1]
        tr == update_transfer_progress(transfer_id, m.progress, None, None)
        st == IF transfer_id \in DOMAIN transfer_stats
              THEN [transfer_stats EXCEPT
                      ![transfer_id].bytes_transferred = m.bytes_transferred,
                      ![transfer_id].network_quality = m.network_quality]
              ELSE transfer_stats
    IN IF transfer_id \notin DOMAIN active_transfers THEN Unchanged(<< >>, FALSE)
       ELSE Result(tr, st, webrtc_connections, << >>, FALSE)

TransferProgress(s) ==
    \E m \in TransferProgressMsgs : Handle(s, handle_transfer_progress(s, m))

\* handle_transfer_complete; t is the clock reading of complete_transfer
handle_transfer_complete(s, m, t) ==
    LET transfer_id == m.transfer_id[1]
        done == [type |-> "transfer_completed", transfer_id |-> transfer_id,
                 status |-> "completed"]
        calls == <<send_to_client(active_transfers[transfer_id].sender_id, done),
                   send_to_client(active_transfers[transfer_id].receiver_id, done)>>
    IN IF transfer_id \notin DOMAIN active_transfers THEN Unchanged(<< >>, FALSE)
       ELSE Result(complete_transfer(transfer_id, t), transfer_stats, webrtc_connections,
                   UpToRaise(calls), Raised(calls))

TransferComplete(s) ==
    \E m \in TransferCompleteMsgs, t \in LastReading..MaxClock :
        Handle(s, handle_transfer_complete(s, m, t))

Next ==
    \/ \E s \in Sockets, c \in Clients : Connect(s, c)
    \/ \E s \in Sockets : Drop(s)
    \/ \E s \in Sockets : ReceiveDisconnect(s)
    \/ \E s \in Sockets : BadFrame(s)
    \/ \E s \in Sockets : Ping(s)
    \/ \E s \in Sockets : FileTransferStart(s)
    \/ \E s \in Sockets : FileChunk(s)
    \/ \E s \in Sockets : ChunkAck(s)
    \/ \E s \in Sockets : TransferProgress(s)
    \/ \E s \in Sockets : TransferComplete(s)

Spec == Init /\ [][Next]_vars

\* ------------------------------------ debug_server_final.py, debug_server.py
\* The two debug servers keep a registry only. A handler's result is the registry
\* after it, whether an exception left it, and whether it left the endpoint by a
\* return statement.
DebugServers == {"debug_server_final", "debug_server"}

Reg == [ac |-> active_connections, ci |-> client_info, di |-> device_ids]

DebugResult(reg, raised, returned) == [reg |-> reg, raised |-> raised, returned |-> returned]

\* ConnectionManager.disconnect
debug_disconnect(reg, client_id) ==
    [ac |-> Remove(reg.ac, client_id), ci |-> Remove(reg.ci, client_id),
     di |-> Remove(reg.di, client_id)]

\* ConnectionManager.send_to_client: a failed send takes the target out of
\* active_connections and device_ids
debug_send_to_client(reg, client_id) ==
    IF client_id \notin DOMAIN reg.ac THEN [ret |-> FALSE, reg |-> reg]
    ELSE IF CanSend(reg.ac[client_id]) THEN [ret |-> TRUE, reg |-> reg]
    ELSE [ret |-> FALSE,
          reg |-> [reg EXCEPT !.ac = Remove(@, client_id), !.di = Remove(@, client_id)]]

InitDebug ==
    /\ server \in DebugServers
    /\ sessions = [s \in Sockets |-> [pc |-> "new", client_id |-> ""]]
    /\ broken = {}
    /\ active_connections = << >>
    /\ client_info = << >>
    /\ device_ids = << >>
    /\ active_transfers = << >>
    /\ transfer_stats = << >>
    /\ webrtc_connections = << >>
    /\ rtc_transfers = << >>
    /\ rtc_active_transfers = {}
    /\ NoBroadcasts
    /\ NoFrames
    /\ NoEngines

\* websocket_endpoint up to the try, for a session that reaches its read loop:
\* manager.connect, the device_assigned message and the device list broadcast.
\* debug_server stores an empty client_info dict.
DebugConnect(s, c) ==
    /\ server \in DebugServers
    /\ sessions[s].pc = "new"
    /\ \A t \in Sockets : t < s => sessions[t].pc # "new"
    /\ s = 1 => c = "alice"
    /\ sessions' = [sessions EXCEPT ![s] = [pc |-> "open", client_id |-> c]]
    /\ active_connections' = Put(active_connections, c, s)
    /\ client_info' = IF server = "debug_server"
                      THEN Put(client_info, c, [session |-> 0]) ELSE client_info
    /\ device_ids' = Put(device_ids, c, s)
    /\ UNCHANGED <<server, peers, engines, fanout, queues, broken, managers>>

\* The peer of a debug server's session goes away without a close handshake.
DebugDrop(s) ==
    /\ server \in DebugServers
    /\ Drop(s)

\* The end of one iteration of a debug server's read loop with result r.
\* debug_server_final catches WebSocketDisconnect only: any other exception leaves
\* the endpoint without manager.disconnect, and so does a return statement.
DebugHandle(s, r) ==
    LET client_id == sessions[s].client_id
        after == IF r.raised /\ server = "debug_server"
                 THEN debug_disconnect(r.reg, client_id) ELSE r.reg
    IN /\ server \in DebugServers
       /\ sessions[s].pc = "open"
       /\ sessions' = IF r.raised \/ r.returned
                      THEN [sessions EXCEPT ![s].pc = "closed"] ELSE sessions
       /\ active_connections' = after.ac
       /\ client_info' = after.ci
       /\ device_ids' = after.di
       /\ UNCHANGED <<server, peers, engines, fanout, queues, broken, managers>>

\* receive_text raises WebSocketDisconnect: except WebSocketDisconnect
DebugReceiveDisconnect(s) ==
    /\ server \in DebugServers
    /\ sessions[s].pc = "open"
    /\ sessions' = [sessions EXCEPT ![s].pc = "closed"]
    /\ active_connections' = debug_disconnect(Reg, sessions[s].client_id).ac
    /\ client_info' = debug_disconnect(Reg, sessions[s].client_id).ci
    /\ device_ids' = debug_disconnect(Reg, sessions[s].client_id).di
    /\ UNCHANGED <<server, peers, engines, fanout, queues, broken, managers>>

\* A text frame that json.loads rejects, or that is not a JSON object so that
\* message.get raises
DebugBadFrame(s) == DebugHandle(s, DebugResult(Reg, TRUE, FALSE))

\* the branches that only forward to message.get("receiver_id") or
\* message.get("sender_id") when it is registered
DebugRelayTypes ==
    IF server = "debug_server_final"
    THEN {"webrtc_offer", "webrtc_answer", "webrtc_ice_candidate", "file_transfer_start",
          "file_chunk"}
    ELSE {"chunk_received", "transfer_complete", "webrtc_ice_candidate", "webrtc_offer",
          "webrtc_answer", "webrtc_connection_status"}

debug_relay(s, m) ==
    IF m.target \in DOMAIN active_connections
    THEN DebugResult(debug_send_to_client(Reg, m.target).reg, FALSE, FALSE)
    ELSE DebugResult(Reg, FALSE, FALSE)

DebugRelay(s) ==
    \E ty \in DebugRelayTypes, target \in Clients \cup {""} :
        DebugHandle(s, debug_relay(s, [type |-> ty, target |-> target]))

\* debug_server, type "ping" (and "get_stats"): one send on the session's own socket
debug_ping(s, m) == DebugResult(Reg, ~CanSend(s), FALSE)

DebugPing(s) ==
    /\ server = "debug_server"
    /\ \E m \in {[type |-> "ping", timestamp |-> 7]} : DebugHandle(s, debug_ping(s, m))

\* debug_server, type "file_transfer_start": the two validation branches reply with
\* an error and return from websocket_endpoint
debug_file_transfer_start(s, m) ==
    IF m.receiver_id = "" \/ m.file_info.kind = "none"
    THEN DebugResult(Reg, ~CanSend(s), CanSend(s))
    ELSE DebugResult(debug_send_to_client(Reg, m.receiver_id).reg,
                     ~CanSend(s) \/ m.file_info.kind # "dict",   \* file_info.get in the log line
                     FALSE)

DebugFileTransferStart(s) ==
    /\ server = "debug_server"
    /\ \E m \in FileTransferStartMsgs : DebugHandle(s, debug_file_transfer_start(s, m))

\* debug_server, type "file_chunk": forward, compute the progress, report it
debug_file_chunk(s, m) ==
    IF m.receiver_id \in DOMAIN active_connections
    THEN DebugResult(debug_send_to_client(Reg, m.receiver_id).reg,
                     \/ m.chunk_index = None
                     \/ m.total_chunks = None
                     \/ m.total_chunks = Some(0)
                     \/ ~CanSend(s),
                     FALSE)
    ELSE DebugResult(Reg, FALSE, FALSE)

DebugFileChunkMsgs ==
    {[type |-> "file_chunk", receiver_id |-> r, chunk_data |-> "data", chunk_index |-> i,
      total_chunks |-> k] :
        r \in Clients \cup {""}, i \in {Some(0), None}, k \in {Some(1), Some(0), None}}

DebugFileChunk(s) ==
    /\ server = "debug_server"
    /\ \E m \in DebugFileChunkMsgs : DebugHandle(s, debug_file_chunk(s, m))

NextDebug ==
    \/ \E s \in Sockets, c \in Clients : DebugConnect(s, c)
    \/ \E s \in Sockets : DebugDrop(s)
    \/ \E s \in Sockets : DebugReceiveDisconnect(s)
    \/ \E s \in Sockets : DebugBadFrame(s)
    \/ \E s \in Sockets : DebugRelay(s)
    \/ \E s \in Sockets : DebugPing(s)
    \/ \E s \in Sockets : DebugFileTransferStart(s)
    \/ \E s \in Sockets : DebugFileChunk(s)

SpecDebug == InitDebug /\ [][NextDebug]_vars

\* ------------------------------------------------------------ properties
\* a step in which the read loop of session s ends
Ends(s) == sessions[s].pc = "open" /\ sessions'[s].pc = "closed"
\* a step in which session s is registered
Connects(s) == sessions[s].pc = "new" /\ sessions'[s].pc # "new"

OpenSockets == {s \in Sockets : sessions[s].pc = "open"}
Unreachable(c) == ~Registered(c) \/ ~CanSend(active_connections[c])
SampleMsg == [type |-> "message_from_client", content |-> "hello"]

\* C1: once the read loop of a session has called disconnect(id), id is not in
\* active_connections, and it enters it again only by a later connect(id); a
\* send_to_client to an id that is not registered, or whose transport send fails,
\* delivers nothing, returns False and does not raise.
C1_DisconnectedIsUnregistered ==
    /\ [][/\ \A s \in Sockets :
                Ends(s) => sessions[s].client_id \notin DOMAIN active_connections'
          /\ \A c \in Clients :
                (c \notin DOMAIN active_connections /\ c \in DOMAIN active_connections')
                    => \E s2 \in Sockets : Connects(s2) /\ sessions'[s2].client_id = c]_vars
    /\ [](\A c \in Clients :
            Unreachable(c) =>
                LET call == send_to_client(c, SampleMsg)
                IN ~call.delivered /\ call.ret = FALSE /\ ~call.raised)

\* a session has ended and its client is unregistered, while another client is
\* registered on a transport that has dropped
C1_Witness ==
    /\ \E s \in Sockets :
        sessions[s].pc = "closed" /\ sessions[s].client_id \notin DOMAIN active_connections
    /\ \E c \in DOMAIN active_connections : ~CanSend(active_connections[c])

\* C2: whichever way a session's websocket_endpoint ends, no client_id stays
\* registered to the socket of a session whose read loop has ended.
C2_EndedSessionIsUnregistered ==
    \A s \in Sockets :
        sessions[s].pc = "closed" =>
            ~(/\ sessions[s].client_id \in DOMAIN active_connections
              /\ active_connections[sessions[s].client_id] = s)

\* C3: a connect with a client_id that is already registered fails and leaves the
\* existing registration, its socket and its client_info, unchanged.
C3_DuplicateConnectRejected ==
    [][\A s \in Sockets :
          (Connects(s) /\ sessions'[s].client_id \in DOMAIN active_connections) =>
              LET c == sessions'[s].client_id
              IN /\ sessions'[s].pc # "open"
                 /\ active_connections'[c] = active_connections[c]
                 /\ client_info'[c] = client_info[c]]_vars

\* C4: when the session of the sender of a transfer that is not terminal ends, the
\* transfer's status becomes cancelled or failed.
C4_SenderDisconnectCancels ==
    [][\A s \in Sockets, id \in DOMAIN active_transfers :
          (/\ Ends(s)
           /\ active_transfers[id].sender_id = sessions[s].client_id
           /\ active_transfers[id].status \notin {"completed", "cancelled", "failed"})
              => /\ id \in DOMAIN active_transfers'
                 /\ active_transfers'[id].status \in {"cancelled", "failed"}]_vars

\* C5: a step that creates a transfer record, its statistics or a WebRTC connection
\* record names a receiver that is registered: a file_transfer_start to an
\* unregistered receiver creates none.
C5_StartNeedsRegisteredReceiver ==
    [][/\ \A id \in DOMAIN active_transfers' \ DOMAIN active_transfers :
            active_transfers'[id].receiver_id \in DOMAIN active_connections
       /\ DOMAIN transfer_stats' \ DOMAIN transfer_stats
            \subseteq DOMAIN active_transfers' \ DOMAIN active_transfers
       /\ \A id \in DOMAIN webrtc_connections' \ DOMAIN webrtc_connections :
            webrtc_connections'[id].receiver_id \in DOMAIN active_connections]_vars

\* a file_transfer_start that passes the validation and whose start_transfer succeeds
Accepted(m) ==
    /\ m.receiver_id # ""
    /\ m.file_info.kind # "none"
    /\ m.use_webrtc => m.file_info.kind = "dict"

C7_RelayedChunkDelivered ==
    \A s \in OpenSockets, B \in DOMAIN active_connections, u \in 1..MaxUuids :
      (CanSend(s) /\ CanSend(active_connections[B]) /\ B # sessions[s].client_id) =>
        LET start == handle_file_transfer_start(s,
                        [type |-> "file_transfer_start", receiver_id |-> B,
                         file_info |-> DictFileInfo(1), use_webrtc |-> FALSE],
                        LastReading, LastReading, u)
            id == start.out[2].msg.transfer_id
            chunk == ChunkMsg(Some(id), "data", Some(0), Some(1))
            r == handle_file_chunk(s, chunk)
        IN /\ start.tr = active_transfers
           /\ \E i \in DOMAIN r.out :
                /\ r.out[i].client_id = B
                /\ r.out[i].delivered
                /\ r.out[i].msg = [type |-> "file_chunk", transfer_id |-> id,
                                   chunk_data |-> "data", chunk_index |-> 0,
                                   total_chunks |-> 1]
           /\ id \in DOMAIN r.tr
           /\ r.tr[id].chunks_sent = 1

\* C8: a file_chunk is forwarded only when the named transfer exists and its status
\* is active; for a transfer that is pending or completed nothing is forwarded and
\* the sender gets an error. (Every record of active_transfers is one of the WebRTC
\* path: the relayed path makes none.)
C8_ForwardOnlyWhenActive ==
    \A s \in OpenSockets, m \in FileChunkMsgs :
        LET r == handle_file_chunk(s, m)
            forwarded == \E i \in DOMAIN r.out : r.out[i].msg.type = "file_chunk"
            exists == m.transfer_id # None /\ m.transfer_id[1] \in DOMAIN active_transfers
            active == exists /\ active_transfers[m.transfer_id[1]].status = "active"
        IN /\ forwarded => active
           /\ (exists /\ ~active /\ CanSend(s)) =>
                \E i \in DOMAIN r.out : r.out[i].sock = s /\ r.out[i].msg.type = "error"

\* C9: in every reachable state of every transfer,
\* chunks_received <= chunks_sent <= total_chunks.
C9_CountersOrdered ==
    \A id \in DOMAIN active_transfers :
        /\ active_transfers[id].chunks_received <= active_transfers[id].chunks_sent
        /\ active_transfers[id].chunks_sent <= active_transfers[id].total_chunks

Statuses(tr) == [id \in DOMAIN tr |-> tr[id].status]

\* C10: no file_chunk, chunk_ack or transfer_progress message changes the status of
\* any transfer, whatever the counters become; a step in which a status becomes
\* completed is the handling of a transfer_complete message that names the transfer.
C10_CompletedOnlyByTransferComplete ==
    /\ [](\A s \in OpenSockets :
            /\ \A m \in FileChunkMsgs :
                Statuses(handle_file_chunk(s, m).tr) = Statuses(active_transfers)
            /\ \A m \in ChunkAckMsgs :
                Statuses(handle_chunk_ack(s, m).tr) = Statuses(active_transfers)
            /\ \A m \in TransferProgressMsgs :
                Statuses(handle_transfer_progress(s, m).tr) = Statuses(active_transfers))
    /\ [][\A id \in DOMAIN active_transfers' :
            (/\ active_transfers'[id].status = "completed"
             /\ id \in DOMAIN active_transfers => active_transfers[id].status # "completed")
                => \E s \in OpenSockets, t \in LastReading..MaxClock :
                     /\ id \in DOMAIN active_transfers
                     /\ active_transfers' =
                          handle_transfer_complete(s,
                              [type |-> "transfer_complete", transfer_id |-> Some(id)], t).tr]_vars

\* the acknowledged count has reached total_chunks and the transfer is still pending
C10_Witness ==
    \E id \in DOMAIN active_transfers :
        /\ active_transfers[id].chunks_received = active_transfers[id].total_chunks
        /\ active_transfers[id].status = "pending"

\* the number p lies in [0, 100]
InRange(p) == p # None /\ 0 <= p[1] /\ p[1] <= 100 * p[2]

\* C11: the stored progress of every transfer is always a number within [0, 100],
\* whatever transfer_progress and chunk_ack report and whatever chunk_index and
\* total_chunks a file_chunk carries.
C11_ProgressWithinRange ==
    \A id \in DOMAIN active_transfers : InRange(active_transfers[id].progress)

CompleteMsg(id) == [type |-> "transfer_complete", transfer_id |-> Some(id)]

C13_CompleteIdempotent ==
    \A s \in OpenSockets, id \in DOMAIN active_transfers, t \in LastReading..MaxClock :
        active_transfers[id].status = "completed" =>
            LET r == handle_transfer_complete(s, CompleteMsg(id), t)
            IN r.tr[id] = active_transfers[id] /\ r.out = << >>

\* the status changes the state machine allows
AllowedMoves ==
    {<<"pending", "active">>, <<"active", "completed">>, <<"active", "failed">>,
     <<"pending", "cancelled">>, <<"active", "cancelled">>}

\* C14: the status of a transfer only moves along pending -> active -> completed,
\* active -> failed and pending|active -> cancelled; a new record starts pending.
C14_StatusMoves ==
    [][\A id \in DOMAIN active_transfers' :
          IF id \in DOMAIN active_transfers
          THEN \/ active_transfers'[id].status = active_transfers[id].status
               \/ <<active_transfers[id].status, active_transfers'[id].status>>
                     \in AllowedMoves
          ELSE active_transfers'[id].status = "pending"]_vars

\* ------------------------------------------- sharezidi-v3/webrtc_transfer.py
\* The peer-side transfer object WebRTCFileTransfer and its manager. The methods
\* start_transfer and receive_file await between their steps, so each is an action
\* that begins it, one per chunk, and one that ends it; callbacks and other calls
\* interleave with them.
MaxRtcTransfers == 2
RtcIds == 1..MaxRtcTransfers
RtcTerminal == {"completed", "failed", "cancelled"}

\* WebRTCFileTransfer.__init__: pc is the RTCPeerConnection (none, open or closed),
\* handlers says whether the connection-state callback is installed, task which of
\* start_transfer and receive_file is running, index its loop position
NewRtcTransfer ==
    [state |-> "initializing", pc |-> "none", handlers |-> FALSE, task |-> "idle",
     index |-> 0, chunks_sent |-> 0]

\* WebRTCFileTransfer.initialize. What the aiortc of the installation does decides
\* the outcome: it is missing, RTCPeerConnection() raises, a call of
\* _configure_connection raises, or all of it succeeds.
InitializeOutcomes == {"unavailable", "pc_raises", "configure_raises", "ok"}

initialize(tr, outcome) ==
    IF outcome = "unavailable" THEN tr
    ELSE IF outcome = "pc_raises" THEN [tr EXCEPT !.state = "failed"]
    ELSE IF outcome = "configure_raises" THEN [tr EXCEPT !.state = "failed", !.pc = "open"]
    ELSE [tr EXCEPT !.state = "connecting", !.pc = "open", !.handlers = TRUE]

InitRtc ==
    /\ server = "webrtc_transfer"
    /\ sessions = [s \in Sockets |-> [pc |-> "new", client_id |-> ""]]
    /\ broken = {}
    /\ active_connections = << >>
    /\ client_info = << >>
    /\ device_ids = << >>
    /\ active_transfers = << >>
    /\ transfer_stats = << >>
    /\ webrtc_connections = << >>
    /\ rtc_transfers = << >>
    /\ rtc_active_transfers = {}
    /\ NoBroadcasts
    /\ NoFrames
    /\ NoEngines

relay == <<server, sessions, broken, active_connections, client_info, device_ids,
           active_transfers, transfer_stats, webrtc_connections, fanout, queues, engines>>

\* WebRTCTransferManager.create_transfer, for a transfer_id not used before; ids are
\* taken in order
CreateTransfer(id, outcome) ==
    /\ id \notin DOMAIN rtc_transfers
    /\ \A j \in RtcIds : j < id => j \in DOMAIN rtc_transfers
    /\ rtc_transfers' = Put(rtc_transfers, id, initialize(NewRtcTransfer, outcome))
    /\ rtc_active_transfers' = rtc_active_transfers \cup {id}
    /\ UNCHANGED relay

\* WebRTCFileTransfer._on_connection_state_change, with pc.connectionState = st
ConnectionStates == {"connecting", "connected", "disconnected", "failed"}

on_connection_state_change(tr, st) ==
    IF st = "connected" THEN [tr EXCEPT !.state = "connected"]
    ELSE IF st = "failed" THEN [tr EXCEPT !.state = "failed"]
    ELSE tr

ConnectionStateChange(id, st) ==
    /\ id \in DOMAIN rtc_transfers
    /\ rtc_transfers[id].handlers
    /\ rtc_transfers[id].pc = "open"
    /\ rtc_transfers' = [rtc_transfers EXCEPT ![id] = on_connection_state_change(@, st)]
    /\ UNCHANGED <<relay, rtc_active_transfers>>

\* WebRTCFileTransfer.start_transfer up to its first await; a file_path that does
\* not exist returns False at once
StartTransfer(id, exists) ==
    /\ id \in DOMAIN rtc_transfers
    /\ rtc_transfers[id].task = "idle"
    /\ rtc_transfers' =
          IF exists
          THEN [rtc_transfers EXCEPT ![id].state = "transferring", ![id].task = "sending",
                                     ![id].index = 0]
          ELSE rtc_transfers
    /\ UNCHANGED <<relay, rtc_active_transfers>>

\* WebRTCFileTransfer.receive_file up to its first await
ReceiveFile(id) ==
    /\ id \in DOMAIN rtc_transfers
    /\ rtc_transfers[id].task = "idle"
    /\ rtc_transfers' = [rtc_transfers EXCEPT ![id].state = "transferring",
                                              ![id].task = "receiving", ![id].index = 0]
    /\ UNCHANGED <<relay, rtc_active_transfers>>

\* one chunk sent by _stream_file or taken by receive_file, and _update_progress;
\* without a data channel (pc none) no chunk passes
TransferChunk(id) ==
    /\ id \in DOMAIN rtc_transfers
    /\ rtc_transfers[id].task # "idle"
    /\ rtc_transfers[id].pc # "none"
    /\ rtc_transfers[id].index < MaxChunks
    /\ rtc_transfers' = [rtc_transfers EXCEPT ![id].index = @ + 1,
                                              ![id].chunks_sent = rtc_transfers[id].index + 1]
    /\ UNCHANGED <<relay, rtc_active_transfers>>

\* The end of start_transfer or receive_file. An exception (open, the missing data
\* channel, a division by a size of 0) ends either as failed. _stream_file that
\* returns, also after a send that failed, ends start_transfer as completed;
\* receive_file writes the chunks after its file was closed, so it ends as
\* completed only when it took no chunk.
FinishTransfer(id, raised) ==
    /\ id \in DOMAIN rtc_transfers
    /\ rtc_transfers[id].task # "idle"
    /\ ~raised => rtc_transfers[id].pc # "none"
    /\ (~raised /\ rtc_transfers[id].task = "receiving") => rtc_transfers[id].index = 0
    /\ rtc_transfers' = [rtc_transfers EXCEPT
                            ![id].state = IF raised THEN "failed" ELSE "completed",
                            ![id].task = "idle"]
    /\ UNCHANGED <<relay, rtc_active_transfers>>

\* WebRTCFileTransfer.close
close(tr) == [tr EXCEPT !.pc = IF @ = "none" THEN "none" ELSE "closed",
                        !.state = "cancelled"]

Close(id) ==
    /\ id \in DOMAIN rtc_transfers
    /\ rtc_transfers' = [rtc_transfers EXCEPT ![id] = close(@)]
    /\ UNCHANGED <<relay, rtc_active_transfers>>

\* WebRTCTransferManager.remove_transfer
RemoveTransfer(id) ==
    /\ id \in rtc_active_transfers
    /\ rtc_transfers' = [rtc_transfers EXCEPT ![id] = close(@)]
    /\ rtc_active_transfers' = rtc_active_transfers \ {id}
    /\ UNCHANGED relay

NextRtc ==
    \/ \E id \in RtcIds, outcome \in InitializeOutcomes : CreateTransfer(id, outcome)
    \/ \E id \in RtcIds, st \in ConnectionStates : ConnectionStateChange(id, st)
    \/ \E id \in RtcIds, exists \in BOOLEAN : StartTransfer(id, exists)
    \/ \E id \in RtcIds : ReceiveFile(id)
    \/ \E id \in RtcIds : TransferChunk(id)
    \/ \E id \in RtcIds, raised \in BOOLEAN : FinishTransfer(id, raised)
    \/ \E id \in RtcIds : Close(id)
    \/ \E id \in RtcIds : RemoveTransfer(id)

SpecRtc == InitRtc /\ [][NextRtc]_vars

\* C15: once the state of a WebRTCFileTransfer is completed, failed or cancelled,
\* no later operation or callback changes it.
C15_TerminalStatesAreFinal ==
    [][\A id \in DOMAIN rtc_transfers :
          rtc_transfers[id].state \in RtcTerminal =>
              rtc_transfers'[id].state = rtc_transfers[id].state]_vars

\* C39: start_transfer ends as completed only when _stream_file sent every one of
\* the total_chunks chunks; it never ends as completed after a send that failed.
C39_CompletedOnlyAfterAllChunks ==
    [][\A id \in DOMAIN rtc_transfers :
          ( /\ rtc_transfers[id].task = "sending"
            /\ rtc_transfers'[id].task = "idle"
            /\ rtc_transfers'[id].state = "completed" )
          => rtc_transfers[id].index = MaxChunks]_vars

\* ------------------------ signalling: webrtc_manager.py and advanced_server.py
MaxCandidates == 1

\* the offer, answer and candidate objects a client can send
Payloads == {"sdp_1", "sdp_2"}
\* a connection_id that no record has
UnknownConnectionId == <<"webrtc", "-", "-", 0>>

\* a signalling message; payload is its offer, answer or candidate field
SignalMsg(type, connection_id, payload) ==
    [type |-> type, connection_id |-> connection_id, payload |-> payload]

SignalMsgs(type) ==
    {SignalMsg(type, id, p) :
        id \in {Some(x) : x \in DOMAIN webrtc_connections \cup {UnknownConnectionId}} \cup {None},
        p \in {Some(x) : x \in Payloads} \cup {None}}

WebrtcOfferMsgs == SignalMsgs("webrtc_offer")
WebrtcAnswerMsgs == SignalMsgs("webrtc_answer")
WebrtcIceCandidateMsgs == SignalMsgs("webrtc_ice_candidate")

Handled(success, wc) == [success |-> success, wc |-> wc]

\* WebRTCManager.handle_offer
handle_offer_from_anyone(connection_id, offer, client_id) ==
    IF connection_id \notin DOMAIN webrtc_connections
    THEN Handled(FALSE, webrtc_connections)
    ELSE Handled(TRUE, [webrtc_connections EXCEPT ![connection_id].offer = Some(offer),
                                                  ![connection_id].status = "offer_received"])

handle_offer(connection_id, offer, client_id) ==
    IF connection_id \notin DOMAIN webrtc_connections
    THEN Handled(FALSE, webrtc_connections)
    ELSE IF webrtc_connections[connection_id].sender_id # client_id
    THEN Handled(FALSE, webrtc_connections)
    ELSE Handled(TRUE, [webrtc_connections EXCEPT ![connection_id].offer = Some(offer),
                                                  ![connection_id].status = "offer_received"])

\* WebRTCManager.handle_answer, on the connection records wc
handle_answer_from_sender(wc, connection_id, answer, client_id) ==
    IF connection_id \notin DOMAIN wc
    THEN Handled(FALSE, wc)
    ELSE IF wc[connection_id].sender_id # client_id
    THEN Handled(FALSE, wc)
    ELSE Handled(TRUE, [wc EXCEPT ![connection_id].answer = Some(answer),
                                  ![connection_id].status = "answer_received"])

handle_answer(wc, connection_id, answer, client_id) ==
    IF connection_id \notin DOMAIN wc
    THEN Handled(FALSE, wc)
    ELSE IF wc[connection_id].receiver_id # client_id
    THEN Handled(FALSE, wc)
    ELSE Handled(TRUE, [wc EXCEPT ![connection_id].answer = Some(answer),
                                  ![connection_id].status = "answer_received"])

\* WebRTCManager.handle_ice_candidate; the timestamp of the entry is left out
handle_ice_candidate(connection_id, candidate, client_id) ==
    IF connection_id \notin DOMAIN webrtc_connections
    THEN Handled(FALSE, webrtc_connections)
    ELSE IF client_id \notin {webrtc_connections[connection_id].sender_id,
                              webrtc_connections[connection_id].receiver_id}
    THEN Handled(FALSE, webrtc_connections)
    ELSE Handled(TRUE, [webrtc_connections EXCEPT ![connection_id].ice_candidates =
                          Append(@, [candidate |-> candidate, from_client |-> client_id])])

Processed(type, connection_id, success) ==
    [type |-> type, connection_id |-> connection_id, success |-> success]

\* The three handlers share their shape: validate, let the manager record, forward
\* to target on success, and reply with the manager's verdict in every case.
Signal(s, m, handled, target, forward_msg, required) ==
    LET missing == send_text(s, ErrorMsg(required))
        forward == send_to_client(target, forward_msg)
        processed == send_text(s, Processed(m.type \o "_processed", m.connection_id[1],
                                            handled.success))
    IN IF m.connection_id = None \/ m.payload = None
       THEN Unchanged(<<missing>>, missing.raised)
       ELSE IF handled.success
       THEN Result(active_transfers, transfer_stats, handled.wc,
                   UpToRaise(<<forward, processed>>), Raised(<<forward, processed>>))
       ELSE Result(active_transfers, transfer_stats, handled.wc,
                   <<processed>>, processed.raised)

\* handle_webrtc_offer
handle_webrtc_offer(s, m) ==
    LET client_id == sessions[s].client_id
        connection_id == m.connection_id[1]
        offer == m.payload[1]
        handled == handle_offer(connection_id, offer, client_id)
    IN Signal(s, m, handled, handled.wc[connection_id].receiver_id,
              [type |-> "webrtc_offer", connection_id |-> connection_id,
               offer |-> offer, sender_id |-> client_id],
              "Connection ID and offer required")

\* handle_webrtc_answer, on the connection records wc (webrtc_connections when the
\* message is handled)
handle_webrtc_answer(wc, s, m) ==
    LET client_id == sessions[s].client_id
        connection_id == m.connection_id[1]
        answer == m.payload[1]
        handled == handle_answer(wc, connection_id, answer, client_id)
    IN Signal(s, m, handled, handled.wc[connection_id].sender_id,
              [type |-> "webrtc_answer", connection_id |-> connection_id,
               answer |-> answer, receiver_id |-> client_id],
              "Connection ID and answer required")

\* handle_webrtc_ice_candidate: target_id
ice_target_sender(connection_info, client_id) == connection_info.sender_id

ice_target(connection_info, client_id) ==
    IF client_id = connection_info.sender_id
    THEN connection_info.receiver_id ELSE connection_info.sender_id

handle_webrtc_ice_candidate(s, m) ==
    LET client_id == sessions[s].client_id
        connection_id == m.connection_id[1]
        candidate == m.payload[1]
        handled == handle_ice_candidate(connection_id, candidate, client_id)
    IN Signal(s, m, handled, ice_target(handled.wc[connection_id], client_id),
              [type |-> "webrtc_ice_candidate", connection_id |-> connection_id,
               candidate |-> candidate, from_client |-> client_id],
              "Connection ID and candidate required")

WebrtcOffer(s) ==
    \E m \in WebrtcOfferMsgs : Handle(s, handle_webrtc_offer(s, m))

WebrtcAnswer(s) ==
    \E m \in WebrtcAnswerMsgs : Handle(s, handle_webrtc_answer(webrtc_connections, s, m))

WebrtcIceCandidate(s) ==
    \E m \in WebrtcIceCandidateMsgs :
        LET r == handle_webrtc_ice_candidate(s, m)
        IN /\ \A id \in DOMAIN r.wc : Len(r.wc[id].ice_candidates) <= MaxCandidates
           /\ Handle(s, r)

NextSignal ==
    \/ \E s \in Sockets, c \in Clients : Connect(s, c)
    \/ \E s \in Sockets : Drop(s)
    \/ \E s \in Sockets : ReceiveDisconnect(s)
    \/ \E s \in Sockets : BadFrame(s)
    \/ \E s \in Sockets : FileTransferStart(s)
    \/ \E s \in Sockets : WebrtcOffer(s)
    \/ \E s \in Sockets : WebrtcAnswer(s)
    \/ \E s \in Sockets : WebrtcIceCandidate(s)

SpecSignal == Init /\ [][NextSignal]_vars

\* ------------------------------------------------- properties of signalling
Forwards(out) == SelectSeq(out, LAMBDA c : c.fn = "send_to_client")
Replies(out) == SelectSeq(out, LAMBDA c : c.fn = "send_text")

\* C16: an answer for a connection on which no offer is recorded is not stored, not
\* forwarded, and leaves the status of the connection as it was.
C16_AnswerNeedsOffer ==
    server = "advanced_server" =>
      \A s \in OpenSockets, id \in DOMAIN webrtc_connections, p \in Payloads :
        webrtc_connections[id].offer = None =>
          LET r == handle_webrtc_answer(webrtc_connections, s,
                                        SignalMsg("webrtc_answer", Some(id), Some(p)))
          IN /\ r.wc[id].answer = webrtc_connections[id].answer
             /\ r.wc[id].status = webrtc_connections[id].status
             /\ Forwards(r.out) = << >>

\* the session s is the one registered for its client, on a transport that works
Live(s) ==
    /\ s \in OpenSockets
    /\ Registered(sessions[s].client_id)
    /\ active_connections[sessions[s].client_id] = s
    /\ CanSend(s)

\* C17: for a connection whose sender and receiver are registered on working
\* transports, an offer from the sender followed at once by an answer from the
\* receiver both succeed: the offer is delivered to the receiver, the answer to the
\* sender, each peer is told success, and the record ends as answer_received with
\* both payloads.
C17_OfferThenAnswerSucceeds ==
    server = "advanced_server" =>
      \A s \in Sockets, s2 \in Sockets, id \in DOMAIN webrtc_connections,
         p \in Payloads, q \in Payloads :
        (/\ Live(s) /\ Live(s2)
         /\ sessions[s].client_id = webrtc_connections[id].sender_id
         /\ sessions[s2].client_id = webrtc_connections[id].receiver_id) =>
          LET r1 == handle_webrtc_offer(s, SignalMsg("webrtc_offer", Some(id), Some(p)))
              r2 == handle_webrtc_answer(r1.wc, s2,
                                         SignalMsg("webrtc_answer", Some(id), Some(q)))
          IN /\ ~r1.raised /\ ~r2.raised
             /\ \E i \in DOMAIN r1.out :
                   /\ r1.out[i].fn = "send_to_client" /\ r1.out[i].delivered
                   /\ r1.out[i].sock = s2
                   /\ r1.out[i].msg.type = "webrtc_offer" /\ r1.out[i].msg.offer = p
             /\ \E i \in DOMAIN r1.out :
                   /\ r1.out[i].fn = "send_text" /\ r1.out[i].delivered
                   /\ r1.out[i].msg = Processed("webrtc_offer_processed", id, TRUE)
             /\ \E i \in DOMAIN r2.out :
                   /\ r2.out[i].fn = "send_to_client" /\ r2.out[i].delivered
                   /\ r2.out[i].sock = s
                   /\ r2.out[i].msg.type = "webrtc_answer" /\ r2.out[i].msg.answer = q
             /\ \E i \in DOMAIN r2.out :
                   /\ r2.out[i].fn = "send_text" /\ r2.out[i].delivered
                   /\ r2.out[i].msg = Processed("webrtc_answer_processed", id, TRUE)
             /\ r2.wc[id].status = "answer_received"
             /\ r2.wc[id].offer = Some(p)
             /\ r2.wc[id].answer = Some(q)

\* an offer and then an answer were recorded for a connection between two different
\* clients that are both registered on working transports
C17_Witness ==
    \E id \in DOMAIN webrtc_connections, s \in Sockets, s2 \in Sockets :
        /\ Live(s) /\ Live(s2) /\ s # s2
        /\ sessions[s].client_id = webrtc_connections[id].sender_id
        /\ sessions[s2].client_id = webrtc_connections[id].receiver_id
        /\ webrtc_connections[id].sender_id # webrtc_connections[id].receiver_id
        /\ webrtc_connections[id].status = "answer_received"
        /\ webrtc_connections[id].offer # None
        /\ webrtc_connections[id].answer # None

\* C18: a webrtc_offer that arrives on a session whose client is not the sender of
\* the connection, a webrtc_answer from one that is not its receiver, and an ICE
\* candidate from one that is neither, leave the connection records as they were and
\* are forwarded to nobody; the session is told success false.
C18_SignalIdentityEnforced ==
    server = "advanced_server" =>
      \A s \in OpenSockets, id \in DOMAIN webrtc_connections, p \in Payloads :
        LET client_id == sessions[s].client_id
            conn == webrtc_connections[id]
            offer == handle_webrtc_offer(s, SignalMsg("webrtc_offer", Some(id), Some(p)))
            answer == handle_webrtc_answer(webrtc_connections, s,
                                           SignalMsg("webrtc_answer", Some(id), Some(p)))
            ice == handle_webrtc_ice_candidate(
                       s, SignalMsg("webrtc_ice_candidate", Some(id), Some(p)))
            Refused(r, type) ==
                /\ r.wc = webrtc_connections
                /\ Forwards(r.out) = << >>
                /\ Len(r.out) = 1
                /\ r.out[1].msg = Processed(type, id, FALSE)
        IN /\ client_id # conn.sender_id => Refused(offer, "webrtc_offer_processed")
           /\ client_id # conn.receiver_id => Refused(answer, "webrtc_answer_processed")
           /\ client_id \notin {conn.sender_id, conn.receiver_id} =>
                  Refused(ice, "webrtc_ice_candidate_processed")

\* a connection exists, untouched by signalling, while a session is open whose
\* client is neither its sender nor its receiver: each of the three messages from
\* that session is one the handlers refuse
C18_Witness ==
    \E s \in OpenSockets, id \in DOMAIN webrtc_connections :
        /\ sessions[s].client_id \notin {webrtc_connections[id].sender_id,
                                          webrtc_connections[id].receiver_id}
        /\ webrtc_connections[id].status = "initiating"
        /\ webrtc_connections[id].ice_candidates = << >>

\* the peer of the connection that client_id is not
OtherPeer(conn, client_id) ==
    IF conn.sender_id = conn.receiver_id THEN conn.sender_id
    ELSE CHOOSE c \in {conn.sender_id, conn.receiver_id} : c # client_id

\* C19: an offer, answer or candidate that the manager accepts makes the handler
\* call send_to_client exactly once, for the other peer of the connection, with the
\* connection_id and the payload as they were received.
C19_ForwardedOnceToOtherPeer ==
    server = "advanced_server" =>
      \A s \in OpenSockets, id \in DOMAIN webrtc_connections, p \in Payloads :
        LET client_id == sessions[s].client_id
            conn == webrtc_connections[id]
            offer == handle_webrtc_offer(s, SignalMsg("webrtc_offer", Some(id), Some(p)))
            answer == handle_webrtc_answer(webrtc_connections, s,
                                           SignalMsg("webrtc_answer", Some(id), Some(p)))
            ice == handle_webrtc_ice_candidate(
                       s, SignalMsg("webrtc_ice_candidate", Some(id), Some(p)))
            Once(r, type) ==
                /\ Len(Forwards(r.out)) = 1
                /\ Forwards(r.out)[1].client_id = OtherPeer(conn, client_id)
                /\ Forwards(r.out)[1].msg.type = type
                /\ Forwards(r.out)[1].msg.connection_id = id
                /\ Forwards(r.out)[1].delivered =
                      (/\ Registered(OtherPeer(conn, client_id))
                       /\ CanSend(active_connections[OtherPeer(conn, client_id)]))
        IN /\ client_id = conn.sender_id =>
                /\ Once(offer, "webrtc_offer")
                /\ Forwards(offer.out)[1].msg.offer = p
                /\ Forwards(offer.out)[1].msg.sender_id = client_id
           /\ client_id = conn.receiver_id =>
                /\ Once(answer, "webrtc_answer")
                /\ Forwards(answer.out)[1].msg.answer = p
                /\ Forwards(answer.out)[1].msg.receiver_id = client_id
           /\ client_id \in {conn.sender_id, conn.receiver_id} =>
                /\ Once(ice, "webrtc_ice_candidate")
                /\ Forwards(ice.out)[1].msg.candidate = p
                /\ Forwards(ice.out)[1].msg.from_client = client_id

\* between two different clients an offer, an answer and a candidate of the sender
\* were accepted
C19_Witness ==
    \E id \in DOMAIN webrtc_connections :
        /\ webrtc_connections[id].sender_id # webrtc_connections[id].receiver_id
        /\ webrtc_connections[id].offer # None
        /\ webrtc_connections[id].answer # None
        /\ \E i \in DOMAIN webrtc_connections[id].ice_candidates :
              webrtc_connections[id].ice_candidates[i].from_client =
                  webrtc_connections[id].sender_id

\* C20: an offer for a connection whose receiver is not a registered client is not
\* forwarded, the sender gets an error reply, and no reply tells it success.
C20_OfferToUnknownPeerFails ==
    server = "advanced_server" =>
      \A s \in OpenSockets, id \in DOMAIN webrtc_connections, p \in Payloads :
        (/\ sessions[s].client_id = webrtc_connections[id].sender_id
         /\ ~Registered(webrtc_connections[id].receiver_id)) =>
          LET r == handle_webrtc_offer(s, SignalMsg("webrtc_offer", Some(id), Some(p)))
          IN /\ \A i \in DOMAIN r.out : ~(r.out[i].fn = "send_to_client" /\ r.out[i].delivered)
             /\ \E i \in DOMAIN r.out : r.out[i].msg.type = "error"
             /\ \A i \in DOMAIN r.out :
                   r.out[i].msg.type = "webrtc_offer_processed" => ~r.out[i].msg.success

\* C21: a candidate that a peer of a connection sends while no answer is recorded
\* for it is held back: the candidate handler forwards nothing.
C21_EarlyCandidatesHeld ==
    server = "advanced_server" =>
      \A s \in OpenSockets, id \in DOMAIN webrtc_connections, p \in Payloads :
        (/\ webrtc_connections[id].answer = None
         /\ sessions[s].client_id \in {webrtc_connections[id].sender_id,
                                        webrtc_connections[id].receiver_id}) =>
          Forwards(handle_webrtc_ice_candidate(
                       s, SignalMsg("webrtc_ice_candidate", Some(id), Some(p))).out) = << >>

\* C22: when the session of a client ends, no connection record that names the
\* client as sender or receiver holds ICE candidates afterwards.
C22_CandidatesDiscardedOnDisconnect ==
    [][\A s \in Sockets :
          Ends(s) =>
            \A id \in DOMAIN webrtc_connections' :
                sessions[s].client_id \in {webrtc_connections'[id].sender_id,
                                           webrtc_connections'[id].receiver_id} =>
                    webrtc_connections'[id].ice_candidates = << >>]_vars

\* ----------------------------------------- properties of rejected requests
\* C23: on a session whose transport works, no parsed message ends the session:
\* the handlers of file_transfer_start, file_chunk and chunk_ack return without an
\* exception for every message, malformed ones included.
C23_ParsedMessageKeepsSession ==
    server = "advanced_server" =>
      \A s \in OpenSockets :
        CanSend(s) =>
          /\ \A m \in FileTransferStartMsgs, t \in LastReading..MaxClock, u \in 1..MaxUuids :
                ~handle_file_transfer_start(s, m, t, t, u).raised
          /\ \A m \in FileChunkMsgs : ~handle_file_chunk(s, m).raised
          /\ \A m \in ChunkAckMsgs : ~handle_chunk_ack(s, m).raised

\* the error messages a handler sent to the session s
Errors(s, out) ==
    SelectSeq(out, LAMBDA c : c.fn = "send_text" /\ c.sock = s /\ c.msg.type = "error")

\* C24: a request that is rejected gets exactly one message of type error on the
\* session it came from: signalling for a connection_id that no record has or from
\* a client that is not the peer allowed to send it, a file_chunk, chunk_ack or
\* transfer_complete for a transfer_id that no record has, and a file_chunk from a
\* client that is not the sender of the transfer.
C24_RejectedGetsOneError ==
    server = "advanced_server" =>
      \A s \in OpenSockets :
        CanSend(s) =>
          LET client_id == sessions[s].client_id
              unknown == UuidId(1)
              One(r) == Len(Errors(s, r.out)) = 1
          IN /\ \A p \in Payloads :
                  /\ One(handle_webrtc_offer(
                          s, SignalMsg("webrtc_offer", Some(UnknownConnectionId), Some(p))))
                  /\ One(handle_webrtc_answer(webrtc_connections,
                          s, SignalMsg("webrtc_answer", Some(UnknownConnectionId), Some(p))))
                  /\ One(handle_webrtc_ice_candidate(
                          s, SignalMsg("webrtc_ice_candidate", Some(UnknownConnectionId),
                                       Some(p))))
                  /\ \A id \in DOMAIN webrtc_connections :
                        client_id # webrtc_connections[id].sender_id =>
                            One(handle_webrtc_offer(
                                    s, SignalMsg("webrtc_offer", Some(id), Some(p))))
             /\ One(handle_file_chunk(s, ChunkMsg(Some(unknown), "data", Some(0), Some(1))))
             /\ \A m \in ChunkAckMsgs : m.transfer_id = Some(unknown) => One(handle_chunk_ack(s, m))
             /\ \A t \in LastReading..MaxClock :
                   One(handle_transfer_complete(s, CompleteMsg(unknown), t))
             /\ \A id \in DOMAIN active_transfers :
                   client_id # active_transfers[id].sender_id =>
                       One(handle_file_chunk(s, ChunkMsg(Some(id), "data", Some(0), Some(1))))

\* the handlers as the claims about counters see them: the record of the transfer
\* before and after a file_chunk or a chunk_ack that names it
AfterChunk(s, id, i, k) ==
    handle_file_chunk(s, ChunkMsg(Some(id), "data", Some(i), Some(k))).tr[id]

AfterAck(s, m) == handle_chunk_ack(s, m).tr[m.transfer_id[1]]

\* C25: a chunk_ack leaves the sender-side values of the transfer (chunks_sent and
\* the progress that the sender's chunks gave it) and its status as they were, and a
\* file_chunk leaves the receiver-side values (chunks_received and the progress
\* that the receiver reported) and its status as they were.
C25_ProgressSidesIndependent ==
    server = "advanced_server" =>
      \A s \in OpenSockets, id \in DOMAIN active_transfers :
        LET old == active_transfers[id]
        IN /\ \A m \in ChunkAckMsgs :
                (m.transfer_id = Some(id) /\ m.chunk_index # None) =>
                    /\ AfterAck(s, m).chunks_sent = old.chunks_sent
                    /\ AfterAck(s, m).status = old.status
                    /\ (old.chunks_sent > 0 /\ old.chunks_received = 0) =>
                           AfterAck(s, m).progress = old.progress
           /\ \A i \in 0..MaxChunks, k \in 1..MaxChunks :
                    /\ AfterChunk(s, id, i, k).chunks_received = old.chunks_received
                    /\ AfterChunk(s, id, i, k).status = old.status
                    /\ (old.chunks_received > 0 /\ old.chunks_sent = 0) =>
                           AfterChunk(s, id, i, k).progress = old.progress

\* C26: a file_chunk for a transfer adds exactly 1 to its chunks_sent and a
\* chunk_ack adds exactly 1 to its count of acknowledged chunks (chunks_received of
\* the record, or chunks_acknowledged of its statistics), whatever the chunk_index.
C26_CountersStepByOne ==
    server = "advanced_server" =>
      \A s \in OpenSockets, id \in DOMAIN active_transfers :
        LET old == active_transfers[id]
        IN /\ \A i \in 0..MaxChunks, k \in 1..MaxChunks :
                AfterChunk(s, id, i, k).chunks_sent = old.chunks_sent + 1
           /\ \A m \in ChunkAckMsgs :
                (m.transfer_id = Some(id) /\ m.chunk_index # None) =>
                    \/ AfterAck(s, m).chunks_received = old.chunks_received + 1
                    \/ handle_chunk_ack(s, m).st[id].chunks_acknowledged =
                           transfer_stats[id].chunks_acknowledged + 1

\* ------------- broadcast: advanced_server.py, main.py and ultimate_main.py
\* The three servers share the shape of websocket_endpoint (connect, read loop,
\* disconnect in both except clauses) and loop over active_connections.items() with
\* an await inside the loop, so other sessions run while a broadcast is suspended in
\* a send. advanced_server runs broadcast_to_others from the handler of a broadcast
\* message; main and ultimate_main define broadcast(message, exclude) for any caller.
BroadcastServers == {"advanced_server", "main", "ultimate_main"}

InitBroadcast ==
    /\ server \in BroadcastServers
    /\ sessions = [s \in Sockets |-> [pc |-> "new", client_id |-> ""]]
    /\ broken = {}
    /\ active_connections = << >>
    /\ client_info = << >>
    /\ device_ids = << >>
    /\ active_transfers = << >>
    /\ transfer_stats = << >>
    /\ webrtc_connections = << >>
    /\ rtc_transfers = << >>
    /\ rtc_active_transfers = {}
    /\ NoBroadcasts
    /\ NoFrames
    /\ NoEngines

SetMin(S) == CHOOSE x \in S : \A y \in S : x <= y

\* A dict keeps its keys in entries in insertion order: a new key takes the next
\* entry, a key that is present keeps its entry, del leaves a hole.
InsertEntry(c) == IF c \in DOMAIN active_connections THEN entries ELSE Append(entries, c)
DeleteEntry(ent, c) == [i \in DOMAIN ent |-> IF ent[i] = c THEN "" ELSE ent[i]]

\* if exclude and client_id == exclude (client_id != sender_id in broadcast_to_others)
Excluded(c, exclude) == exclude # "" /\ c = exclude

\* The loop from a call of next() on the iterator to its next await or its end, on
\* the dict (ac, ent). next() raises RuntimeError when the size of the dict is not
\* the one the iterator was made with; entries of excluded clients are passed
\* without an await.
Advance(b, ac, ent) ==
    LET left == {i \in DOMAIN ent : i > b.pos /\ ent[i] # "" /\ ~Excluded(ent[i], b.exclude)}
    IN IF b.used # Cardinality(DOMAIN ac)
       THEN [b EXCEPT !.state = "raised", !.target = "", !.conn = 0]
       ELSE IF left = {}
       THEN [b EXCEPT !.state = "done", !.target = "", !.conn = 0]
       ELSE [b EXCEPT !.state = "sending", !.pos = SetMin(left),
                      !.target = ent[SetMin(left)], !.conn = ac[ent[SetMin(left)]]]

\* the loops of other callers that were suspended while the dict changed
Disturb(bs, s, changed) ==
    [x \in Sockets |->
        IF changed /\ x # s /\ bs[x].state = "sending"
        THEN [bs[x] EXCEPT !.disturbed = TRUE] ELSE bs[x]]

\* websocket_endpoint up to the try: manager.connect
BroadcastConnect(s, c) ==
    /\ server \in BroadcastServers
    /\ sessions[s].pc = "new"
    /\ \A t \in Sockets : t < s => sessions[t].pc # "new"
    /\ s = 1 => c = "alice"
    /\ sessions' = [sessions EXCEPT ![s] = [pc |-> "open", client_id |-> c]]
    /\ active_connections' = Put(active_connections, c, s)
    /\ client_info' = Put(client_info, c, [session |-> s])
    /\ entries' = InsertEntry(c)
    /\ broadcasts' = Disturb(broadcasts, s, TRUE)
    /\ UNCHANGED <<server, peers, engines, queues, broken, device_ids, managers>>

\* receive_text raises WebSocketDisconnect, or the frame is not JSON: both except
\* clauses call manager.disconnect(client_id). In advanced_server the loop is not in
\* receive_text while its handler runs the broadcast.
BroadcastDisconnect(s) ==
    /\ server \in BroadcastServers
    /\ sessions[s].pc = "open"
    /\ server = "advanced_server" => broadcasts[s].state # "sending"
    /\ sessions' = [sessions EXCEPT ![s].pc = "closed"]
    /\ active_connections' = disconnect_connections(sessions[s].client_id)
    /\ client_info' = disconnect_info(sessions[s].client_id)
    /\ entries' = IF Registered(sessions[s].client_id)
                  THEN DeleteEntry(entries, sessions[s].client_id) ELSE entries
    /\ broadcasts' =
          Disturb(IF server = "advanced_server" THEN [broadcasts EXCEPT ![s] = Idle]
                  ELSE broadcasts,
                  s, Registered(sessions[s].client_id))
    /\ UNCHANGED <<server, peers, engines, queues, broken, device_ids, managers>>

\* The loop is entered: broadcast_to_others(client_id, ...) for a broadcast message
\* in advanced_server, broadcast(message, exclude) in main and ultimate_main. It
\* runs to its first send.
BroadcastStart(s, exclude) ==
    /\ server \in BroadcastServers
    /\ sessions[s].pc = "open"
    /\ broadcasts[s].state # "sending"
    /\ server = "advanced_server" => exclude = sessions[s].client_id
    /\ broadcasts' =
          [broadcasts EXCEPT ![s] =
              Advance([Idle EXCEPT !.used = Cardinality(DOMAIN active_connections),
                                   !.exclude = exclude,
                                   !.todo = {c \in DOMAIN active_connections :
                                                ~Excluded(c, exclude)}],
                      active_connections, entries)]
    /\ UNCHANGED <<server, peers, engines, queues, registry, entries, broken, device_ids, managers>>

\* The send that the loop of s is suspended in returns or raises, and the loop runs
\* to its next send, to its end or to an exception. A send that raises is caught:
\* advanced_server logs it, main and ultimate_main delete the client from the dict
\* they are looping over (main without looking whether it is still there: KeyError).
\* An exception that leaves the handler of advanced_server ends the session in
\* websocket_endpoint's except Exception.
BroadcastResume(s) ==
    LET b == broadcasts[s]
        fail == ~CanSend(b.conn)
        present == b.target \in DOMAIN active_connections
        removes == server \in {"main", "ultimate_main"} /\ fail /\ present
        keyerror == server = "main" /\ fail /\ ~present
        ac1 == IF removes THEN Remove(active_connections, b.target) ELSE active_connections
        ent1 == IF removes THEN DeleteEntry(entries, b.target) ELSE entries
        b1 == [b EXCEPT !.todo = @ \ {b.target}]
        b2 == IF keyerror THEN [b1 EXCEPT !.state = "raised", !.target = "", !.conn = 0]
              ELSE Advance(b1, ac1, ent1)
        ends == server = "advanced_server" /\ b2.state = "raised"
        client_id == sessions[s].client_id
        ac2 == IF ends /\ client_id \in DOMAIN ac1 THEN Remove(ac1, client_id) ELSE ac1
    IN /\ server \in BroadcastServers
       /\ b.state = "sending"
       /\ sessions' = IF ends THEN [sessions EXCEPT ![s].pc = "closed"] ELSE sessions
       /\ active_connections' = ac2
       /\ entries' = IF ends /\ client_id \in DOMAIN ac1
                     THEN DeleteEntry(ent1, client_id) ELSE ent1
       /\ client_info' = IF ends THEN disconnect_info(client_id) ELSE client_info
       /\ broadcasts' = Disturb([broadcasts EXCEPT ![s] = b2], s, ac2 # active_connections)
       /\ UNCHANGED <<server, peers, engines, queues, broken, device_ids, managers>>

NextBroadcast ==
    \/ \E s \in Sockets, c \in Clients : BroadcastConnect(s, c)
    \/ \E s \in Sockets : Drop(s)
    \/ \E s \in Sockets : BroadcastDisconnect(s)
    \/ \E s \in Sockets, exclude \in Clients \cup {""} : BroadcastStart(s, exclude)
    \/ \E s \in Sockets : BroadcastResume(s)

SpecBroadcast == InitBroadcast /\ [][NextBroadcast]_vars

\* the entries hold each registered client once
EntriesMatchRegistry ==
    /\ {entries[i] : i \in DOMAIN entries} \ {""} = DOMAIN active_connections
    /\ \A i \in DOMAIN entries, j \in DOMAIN entries :
          (entries[i] = entries[j] /\ entries[i] # "") => i = j

\* C28: in advanced_server a broadcast during which another client connected or
\* disconnected still runs to its end: the handler is not left by an exception and
\* its session stays open.
C28_BroadcastSurvivesRegistryChange ==
    server = "advanced_server" =>
      \A s \in Sockets :
        (broadcasts[s].disturbed /\ broadcasts[s].state \in {"done", "raised"}) =>
            /\ broadcasts[s].state = "done"
            /\ sessions[s].pc = "open"

\* C29: a broadcast that nobody else's connect or disconnect interfered with ends
\* without an exception after a send to every client that was registered, except
\* the excluded one, whether or not some of the sends failed.
C29_BroadcastOutlivesFailedSend ==
    server \in BroadcastServers =>
      \A s \in Sockets :
        (~broadcasts[s].disturbed /\ broadcasts[s].state \in {"done", "raised"}) =>
            /\ broadcasts[s].state = "done"
            /\ broadcasts[s].todo = {}

\* C30: a start_transfer call never yields the transfer_id or the connection_id of
\* a record that exists, whatever the clock reads at the call (it never reads less
\* than before): a new transfer does not overwrite an old one.
C30_TransferIdsUnique ==
    server = "advanced_server" =>
      \A s \in OpenSockets, r \in Clients, k \in 1..MaxChunks, t1 \in LastReading..MaxClock :
        \A t2 \in t1..MaxClock :
          LET started == start_transfer(sessions[s].client_id, r, DictFileInfo(k), t1, t2)
          IN /\ started.transfer_id \notin DOMAIN active_transfers
             /\ started.connection_id \notin DOMAIN webrtc_connections

\* ------------------------- the read loop, frame by frame: advanced_server.py
\* websocket_endpoint awaits handle_message before it calls receive_text again, and
\* handle_file_chunk awaits each of its sends; the handlers of other sessions run
\* during these awaits. Here a client's file_chunk frames wait in inbox, Receive
\* takes one and runs the handler to its first send, and SendNext makes one send.
MaxFrames == 2

\* chunk_data of the n-th frame that the client of socket s sends
FrameData(s, n) ==
    << <<"1.1", "1.2", "1.3", "1.4">>, <<"2.1", "2.2", "2.3", "2.4">>,
       <<"3.1", "3.2", "3.3", "3.4">>, <<"4.1", "4.2", "4.3", "4.4">> >>[s][n]

\* the client of session s writes its next file_chunk frame: chunk 0 of MaxFrames,
\* then chunk 1, and so on
ClientSend(s, id) ==
    /\ server = "advanced_server"
    /\ sessions[s].pc = "open"
    /\ inbox[s].sent < MaxFrames
    /\ inbox' = [inbox EXCEPT
                   ![s].sent = @ + 1,
                   ![s].frames = Append(@, ChunkMsg(Some(id), FrameData(s, inbox[s].sent + 1),
                                                    Some(inbox[s].sent), Some(MaxFrames)))]
    /\ UNCHANGED <<server, peers, engines, fanout, registry, broken, device_ids, managers,
                   handling, wire>>

\* receive_text returns the frames of a connection in the order they were written
LastFrame(frames) == Len(frames)

NextFrame(frames) == 1

Without(frames, n) == [j \in 1..(Len(frames) - 1) |-> IF j < n THEN frames[j] ELSE frames[j + 1]]

\* receive_text, json.loads, handle_message, handle_file_chunk up to its first send:
\* the record of the transfer is updated before the handler awaits anything
Receive(s) ==
    /\ server = "advanced_server"
    /\ sessions[s].pc = "open"
    /\ handling[s] = << >>
    /\ inbox[s].frames # << >>
    /\ LET n == NextFrame(inbox[s].frames)
           r == handle_file_chunk(s, inbox[s].frames[n])
       IN /\ inbox' = [inbox EXCEPT ![s].frames = Without(@, n)]
          /\ handling' = [handling EXCEPT ![s] = r.out]
          /\ active_transfers' = r.tr
    /\ UNCHANGED <<server, peers, engines, fanout, registry, broken, device_ids, transfer_stats,
                   webrtc_connections, wire>>

\* One send of the handler of s: websocket.send_text on its own socket, which
\* raises when the transport is gone and then ends the session, or
\* manager.send_to_client, which looks the client up when it is called and returns
\* False instead of raising. After its last send the handler returns.
SendNext(s) ==
    LET call == Head(handling[s])
        own == call.fn = "send_text"
        sock == IF own THEN s
                ELSE IF Registered(call.client_id) THEN active_connections[call.client_id]
                ELSE 0
        delivered == sock # 0 /\ CanSend(sock)
    IN /\ server = "advanced_server"
       /\ sessions[s].pc = "open"
       /\ handling[s] # << >>
       /\ wire' = IF delivered THEN [wire EXCEPT ![sock] = Append(@, call.msg)] ELSE wire
       /\ IF own /\ ~delivered
          THEN /\ handling' = [handling EXCEPT ![s] = << >>]
               /\ EndSession(s)
          ELSE /\ handling' = [handling EXCEPT ![s] = Tail(@)]
               /\ UNCHANGED registry
       /\ UNCHANGED <<server, peers, engines, fanout, broken, device_ids, managers, inbox>>

\* a file_transfer_start, from a session that has sent no chunk yet
StartBeforeChunks(s) ==
    /\ inbox[s].sent = 0
    /\ FileTransferStart(s)

NextOrder ==
    \/ \E s \in Sockets, c \in Clients : Connect(s, c)
    \/ \E s \in Sockets : Drop(s)
    \/ \E s \in Sockets : StartBeforeChunks(s)
    \/ \E s \in Sockets, id \in DOMAIN active_transfers : ClientSend(s, id)
    \/ \E s \in Sockets : Receive(s)
    \/ \E s \in Sockets : SendNext(s)

SpecOrder == Init /\ [][NextOrder]_vars

\* the positions on the wire of socket r of the file_chunk frame with this data
ChunkAt(r, data) ==
    {i \in DOMAIN wire[r] : wire[r][i].type = "file_chunk" /\ wire[r][i].chunk_data = data}

\* C27: the file_chunk frames of one session reach a receiver in the order the
\* client sent them, each at most once, whatever the other sessions do meanwhile.
C27_ChunksForwardedInOrder ==
    server = "advanced_server" =>
      \A r \in Sockets, s \in Sockets, n1 \in 1..MaxFrames, n2 \in 1..MaxFrames :
        /\ Cardinality(ChunkAt(r, FrameData(s, n1))) <= 1
        /\ n1 < n2 =>
              \A i \in ChunkAt(r, FrameData(s, n1)), j \in ChunkAt(r, FrameData(s, n2)) : i < j

\* a receiver got the first chunk of one session, then a chunk of another session,
\* then the second chunk of the first
C27_Witness ==
    \E r \in Sockets, s \in Sockets, s2 \in Sockets, n \in 1..MaxFrames :
        s2 # s /\ \E i \in ChunkAt(r, FrameData(s, 1)), j \in ChunkAt(r, FrameData(s2, n)),
           k \in ChunkAt(r, FrameData(s, 2)) : i < j /\ j < k

\* C38: every session whose read loop is running is reachable under its client_id:
\* active_connections holds that id and maps it to the session's own socket.
C38_RunningSessionReachable ==
    \A s \in OpenSockets :
        /\ sessions[s].client_id \in DOMAIN active_connections
        /\ active_connections[sessions[s].client_id] = s

\* ------------------------------------ late reports, outsiders, failed starts
\* progress and the two counters of a transfer record
Counters(transfer) ==
    <<transfer.progress, transfer.chunks_sent, transfer.chunks_received>>

\* C33: once a transfer is completed, a file_chunk, chunk_ack or transfer_progress
\* that names it leaves its progress, chunks_sent and chunks_received as they are.
C33_CompletedIgnoresLateReports ==
    server = "advanced_server" =>
      \A s \in OpenSockets, id \in DOMAIN active_transfers :
        active_transfers[id].status = "completed" =>
          /\ \A m \in FileChunkMsgs : m.transfer_id = Some(id) =>
                Counters(handle_file_chunk(s, m).tr[id]) = Counters(active_transfers[id])
          /\ \A m \in ChunkAckMsgs : m.transfer_id = Some(id) =>
                Counters(handle_chunk_ack(s, m).tr[id]) = Counters(active_transfers[id])
          /\ \A m \in TransferProgressMsgs : m.transfer_id = Some(id) =>
                Counters(handle_transfer_progress(s, m).tr[id]) = Counters(active_transfers[id])

\* the request r left the record of transfer id alone and sent nothing to its
\* sender or its receiver through the registry
NoEffectOn(id, r) ==
    /\ r.tr[id] = active_transfers[id]
    /\ \A i \in DOMAIN r.out :
          r.out[i].fn = "send_to_client" =>
              r.out[i].client_id \notin {active_transfers[id].sender_id,
                                        active_transfers[id].receiver_id}

\* C34: a file_chunk, chunk_ack, transfer_progress or transfer_complete that names
\* a transfer and comes from a client that is neither its sender nor its receiver
\* changes no field of the record and sends nothing to the sender or the receiver.
C34_OutsiderHasNoEffect ==
    server = "advanced_server" =>
      \A s \in OpenSockets, id \in DOMAIN active_transfers :
        sessions[s].client_id \notin {active_transfers[id].sender_id,
                                      active_transfers[id].receiver_id} =>
          /\ \A m \in FileChunkMsgs : m.transfer_id = Some(id) =>
                NoEffectOn(id, handle_file_chunk(s, m))
          /\ \A m \in ChunkAckMsgs : m.transfer_id = Some(id) =>
                NoEffectOn(id, handle_chunk_ack(s, m))
          /\ \A m \in TransferProgressMsgs : m.transfer_id = Some(id) =>
                NoEffectOn(id, handle_transfer_progress(s, m))
          /\ \A m \in TransferCompleteMsgs, t \in LastReading..MaxClock :
                m.transfer_id = Some(id) => NoEffectOn(id, handle_transfer_complete(s, m, t))

\* the messages of this type that the calls of out delivered
Delivered(out, type) ==
    {i \in DOMAIN out : out[i].delivered /\ out[i].msg.type = type}

\* C36: a file_transfer_start that is answered with a message of type error has
\* created no transfer record, no transfer_stats entry and no connection record.
C36_ErrorLeavesNoRecord ==
    server = "advanced_server" =>
      \A s \in OpenSockets, m \in FileTransferStartMsgs, t1 \in LastReading..MaxClock,
         u \in 1..MaxUuids :
        \A t2 \in t1..MaxClock :
          LET r == handle_file_transfer_start(s, m, t1, t2, u)
          IN Delivered(r.out, "error") # {} =>
                /\ r.tr = active_transfers
                /\ r.st = transfer_stats
                /\ r.wc = webrtc_connections

\* C37: the sender of a file_chunk gets a progress_update only when the chunk was
\* forwarded to the receiver of the transfer.
C37_ProgressOnlyForForwardedChunk ==
    server = "advanced_server" =>
      \A s \in OpenSockets, m \in FileChunkMsgs :
        LET r == handle_file_chunk(s, m)
        IN Delivered(r.out, "progress_update") # {} => Delivered(r.out, "file_chunk") # {}

\* ----------------------------------------------- sharezidi-v3/p2p_transfer.py
\* P2PTransferManager: the caller names the transfer and chooses the method in its
\* TransferConfig. The connection dictionaries of the manager are never written.
TransferMethods == {"webrtc", "websocket", "direct"}
P2pTransferIds == {"t1", "t2"}

InitP2p ==
    /\ server = "p2p_transfer"
    /\ sessions = [s \in Sockets |-> [pc |-> "new", client_id |-> ""]]
    /\ broken = {}
    /\ active_connections = << >>
    /\ client_info = << >>
    /\ device_ids = << >>
    /\ active_transfers = << >>
    /\ transfer_stats = << >>
    /\ webrtc_connections = << >>
    /\ rtc_transfers = << >>
    /\ rtc_active_transfers = {}
    /\ NoBroadcasts
    /\ NoFrames
    /\ NoEngines

P2pTransfer(method, sender, receiver, file_info, status) ==
    [method |-> method, sender |-> sender, receiver |-> receiver, file_info |-> file_info,
     status |-> status, progress |-> 0]

_setup_webrtc_transfer(transfer_id, sender, receiver, file_info) ==
    Put(p2p_active_transfers, transfer_id,
        P2pTransfer("webrtc", sender, receiver, file_info, "connecting"))

_setup_websocket_transfer(transfer_id, sender, receiver, file_info) ==
    Put(p2p_active_transfers, transfer_id,
        P2pTransfer("websocket", sender, receiver, file_info, "active"))

_setup_direct_transfer(transfer_id, sender, receiver, file_info) ==
    Put(p2p_active_transfers, transfer_id,
        P2pTransfer("direct", sender, receiver, file_info, "connecting"))

\* P2PTransferManager.initiate_transfer with config.method = method
initiate_transfer(transfer_id, sender_device, receiver_device, file_info, method) ==
    IF method = "webrtc"
    THEN _setup_webrtc_transfer(transfer_id, sender_device, receiver_device, file_info)
    ELSE IF method = "websocket"
    THEN _setup_websocket_transfer(transfer_id, sender_device, receiver_device, file_info)
    ELSE IF method = "direct"
    THEN _setup_direct_transfer(transfer_id, sender_device, receiver_device, file_info)
    ELSE p2p_active_transfers

InitiateTransfer(transfer_id, sender_device, receiver_device, method) ==
    /\ server = "p2p_transfer"
    /\ p2p_active_transfers' =
          initiate_transfer(transfer_id, sender_device, receiver_device,
                            DictFileInfo(MaxChunks), method)
    /\ UNCHANGED <<server, peers, fanout, queues, registry, broken, device_ids, managers,
                   active_streams>>

\* P2PTransferManager.complete_transfer (stream_chunk only reads the record, and
\* the three _stream_*_chunk methods only log)
p2p_complete_transfer(transfer_id) ==
    IF transfer_id \in DOMAIN p2p_active_transfers
    THEN [p2p_active_transfers EXCEPT ![transfer_id].status = "completed",
                                      ![transfer_id].progress = 100]
    ELSE p2p_active_transfers

P2pCompleteTransfer(transfer_id) ==
    /\ server = "p2p_transfer"
    /\ p2p_active_transfers' = p2p_complete_transfer(transfer_id)
    /\ UNCHANGED <<server, peers, fanout, queues, registry, broken, device_ids, managers,
                   active_streams>>

NextP2p ==
    \/ \E transfer_id \in P2pTransferIds, sender \in Clients, receiver \in Clients,
          method \in TransferMethods : InitiateTransfer(transfer_id, sender, receiver, method)
    \/ \E transfer_id \in P2pTransferIds : P2pCompleteTransfer(transfer_id)

SpecP2p == InitP2p /\ [][NextP2p]_vars

\* C31: a transfer that is recorded with the relayed method (websocket) is never
\* recorded with a direct method (webrtc, direct) afterwards.
C31_RelayedNeverDirectAgain ==
    [][\A transfer_id \in DOMAIN p2p_active_transfers :
          p2p_active_transfers[transfer_id].method = "websocket" =>
              p2p_active_transfers'[transfer_id].method = "websocket"]_vars

\* --------------------- sharezidi-v3/ultimate_main.py and streaming_optimizer.py
MaxStreams == 2

\* The endpoint of ultimate_main registers the client without device_info and ends
\* both ways with connection_manager.disconnect. Of its message types the four of a
\* transfer are modelled; without device_capabilities messages the method "auto"
\* resolves to websocket, and the method has no effect on what the handlers do.
InitUltimate ==
    /\ server = "ultimate_main"
    /\ sessions = [s \in Sockets |-> [pc |-> "new", client_id |-> ""]]
    /\ broken = {}
    /\ active_connections = << >>
    /\ client_info = << >>
    /\ device_ids = << >>
    /\ active_transfers = << >>
    /\ transfer_stats = << >>
    /\ webrtc_connections = << >>
    /\ rtc_transfers = << >>
    /\ rtc_active_transfers = {}
    /\ NoBroadcasts
    /\ NoFrames
    /\ NoEngines

\* websocket_endpoint up to the try: connection_manager.connect(websocket, client_id)
UltimateConnect(s, c) ==
    /\ server = "ultimate_main"
    /\ sessions[s].pc = "new"
    /\ \A t \in Sockets : t < s => sessions[t].pc # "new"
    /\ s = 1 => c = "alice"
    /\ sessions' = [sessions EXCEPT ![s] = [pc |-> "open", client_id |-> c]]
    /\ active_connections' = Put(active_connections, c, s)
    /\ UNCHANGED <<server, peers, engines, fanout, queues, client_info, broken, device_ids,
                   managers>>

\* receive_text raises WebSocketDisconnect, or json.loads raises: disconnect(client_id)
UltimateDisconnect(s) ==
    /\ server = "ultimate_main"
    /\ sessions[s].pc = "open"
    /\ EndSession(s)
    /\ UNCHANGED <<server, peers, engines, fanout, queues, broken, device_ids, managers>>

\* the result of a handler of ultimate_main: the streams of the engine after it, the
\* sends it made, and whether an exception left it
StreamResult(streams, out, raised) == [streams |-> streams, out |-> out, raised |-> raised]

UltimateHandle(s, r) ==
    /\ server = "ultimate_main"
    /\ sessions[s].pc = "open"
    /\ active_streams' = r.streams
    /\ IF r.raised THEN EndSession(s) ELSE UNCHANGED registry
    /\ UNCHANGED <<server, peers, fanout, queues, broken, device_ids, managers,
                   p2p_active_transfers>>

\* UltimateStreamingEngine.create_optimized_stream: the keys of stream_config
create_optimized_stream(streams, stream_id, file_info) ==
    Put(streams, stream_id,
        [stream_id |-> stream_id, file_info |-> file_info, optimization |-> "optimized",
         created_at |-> "now", status |-> "initialized"])

\* UltimateStreamingEngine.update_stream_performance adds the keys last_update and
\* metrics to a stream that exists; metrics is the kind of message it came from
update_stream_performance(streams, stream_id, metrics) ==
    IF stream_id \in DOMAIN streams
    THEN Put(streams, stream_id,
             [k \in DOMAIN streams[stream_id] \cup {"last_update", "metrics"} |->
                 IF k = "metrics" THEN metrics
                 ELSE IF k = "last_update" THEN "now"
                 ELSE streams[stream_id][k]])
    ELSE streams

\* dict.get(key): None for a key that the dict does not have
Get(dict, key) == IF key \in DOMAIN dict THEN Some(dict[key]) ELSE None

UltimateStartMsgs ==
    {[type |-> "file_transfer_start", receiver_id |-> r, file_info |-> f, method |-> "auto"] :
        r \in Clients \cup {""}, f \in {NoFileInfo, DictFileInfo(MaxChunks)}}

\* handle_ultimate_file_transfer_start; u is the value of uuid.uuid4()
handle_ultimate_file_transfer_start(streams, s, m, u) ==
    LET client_id == sessions[s].client_id
        transfer_id == UuidId(u)
        created == create_optimized_stream(streams, transfer_id, m.file_info)
        no_receiver == send_text(s, ErrorMsg("Receiver ID required"))
        notify == send_to_client(m.receiver_id,
                      [type |-> "incoming_transfer", transfer_id |-> transfer_id,
                       file_info |-> m.file_info, sender_id |-> client_id,
                       method |-> "websocket", optimization |-> "optimized"])
        confirm == send_text(s, [type |-> "transfer_started", transfer_id |-> transfer_id,
                                 method |-> "websocket", optimization |-> "optimized",
                                 status |-> "pending"])
    IN IF m.receiver_id = "" THEN StreamResult(streams, <<no_receiver>>, no_receiver.raised)
       ELSE StreamResult(created, <<notify, confirm>>, confirm.raised)

\* handle_optimized_file_chunk
handle_optimized_file_chunk(streams, s, m) ==
    LET missing == send_text(s, ErrorMsg("Missing required chunk data"))
        transfer_id == m.transfer_id[1]
        chunk_index == m.chunk_index[1]
        updated == update_stream_performance(streams, transfer_id, "file_chunk")
        progress == Frac((chunk_index + 1) * 100, m.total_chunks[1])
        update == send_text(s, [type |-> "progress_update", transfer_id |-> transfer_id,
                                progress |-> progress, chunk_index |-> chunk_index,
                                optimization |-> "active"])
        receiver_id == Get(streams[transfer_id], "receiver_id")
        forward == send_to_client(receiver_id[1],
                        [type |-> "file_chunk", transfer_id |-> transfer_id,
                         chunk_data |-> m.chunk_data, chunk_index |-> chunk_index,
                         total_chunks |-> m.total_chunks[1], optimization |-> "streaming"])
    IN IF m.transfer_id = None \/ m.chunk_data = "" \/ m.chunk_index = None
       THEN StreamResult(streams, <<missing>>, missing.raised)
       ELSE IF m.total_chunks = None \/ m.total_chunks = Some(0)
       THEN StreamResult(updated, << >>, TRUE)     \* TypeError, ZeroDivisionError
       ELSE IF update.raised THEN StreamResult(updated, <<update>>, TRUE)
       ELSE IF transfer_id \in DOMAIN streams /\ receiver_id # None
       THEN StreamResult(updated, <<update, forward>>, FALSE)
       ELSE StreamResult(updated, <<update>>, FALSE)

\* handle_chunk_ack of ultimate_main
ultimate_handle_chunk_ack(streams, s, m) ==
    LET transfer_id == m.transfer_id[1]
        updated == update_stream_performance(streams, transfer_id, "chunk_ack")
        sender_id == Get(streams[transfer_id], "sender_id")
        ack == send_to_client(sender_id[1],
                    [type |-> "chunk_ack", transfer_id |-> transfer_id,
                     chunk_index |-> m.chunk_index, received_progress |-> m.received_progress,
                     optimization |-> "tracked"])
    IN IF transfer_id \in DOMAIN streams /\ sender_id # None
       THEN StreamResult(updated, <<ack>>, FALSE)
       ELSE StreamResult(updated, << >>, FALSE)

\* handle_transfer_complete of ultimate_main
ultimate_handle_transfer_complete(streams, s, m) ==
    LET transfer_id == m.transfer_id[1]
        sender_id == Get(streams[transfer_id], "sender_id")
        done == send_to_client(sender_id[1],
                    [type |-> "transfer_completed", transfer_id |-> transfer_id,
                     status |-> "completed"])
    IN IF transfer_id \notin DOMAIN streams THEN StreamResult(streams, << >>, FALSE)
       ELSE IF sender_id # None THEN StreamResult(Remove(streams, transfer_id), <<done>>, FALSE)
       ELSE StreamResult(Remove(streams, transfer_id), << >>, FALSE)

\* the transfer ids a client of ultimate_main can name
StreamIds == DOMAIN active_streams \cup {UuidId(u) : u \in 1..MaxUuids}

UltimateChunkMsgs ==
    {ChunkMsg(Some(id), "data", Some(0), k) : id \in StreamIds, k \in {Some(1), Some(0)}}
    \cup {ChunkMsg(None, "data", Some(0), Some(1))}

UltimateAckMsgs ==
    {[type |-> "chunk_ack", transfer_id |-> Some(id), chunk_index |-> Some(0),
      received_progress |-> Num(0)] : id \in StreamIds}

UltimateCompleteMsgs ==
    {[type |-> "transfer_complete", transfer_id |-> Some(id)] : id \in StreamIds}

\* uuid.uuid4() does not return an id that is in use
UltimateFileTransferStart(s) ==
    \E m \in UltimateStartMsgs, u \in 1..MaxStreams :
        /\ UuidId(u) \notin DOMAIN active_streams
        /\ UltimateHandle(s, handle_ultimate_file_transfer_start(active_streams, s, m, u))

OptimizedFileChunk(s) ==
    \E m \in UltimateChunkMsgs :
        UltimateHandle(s, handle_optimized_file_chunk(active_streams, s, m))

UltimateChunkAck(s) ==
    \E m \in UltimateAckMsgs :
        UltimateHandle(s, ultimate_handle_chunk_ack(active_streams, s, m))

UltimateTransferComplete(s) ==
    \E m \in UltimateCompleteMsgs :
        UltimateHandle(s, ultimate_handle_transfer_complete(active_streams, s, m))

NextUltimate ==
    \/ \E s \in Sockets, c \in Clients : UltimateConnect(s, c)
    \/ \E s \in Sockets : Drop(s)
    \/ \E s \in Sockets : UltimateDisconnect(s)
    \/ \E s \in Sockets : UltimateFileTransferStart(s)
    \/ \E s \in Sockets : OptimizedFileChunk(s)
    \/ \E s \in Sockets : UltimateChunkAck(s)
    \/ \E s \in Sockets : UltimateTransferComplete(s)

SpecUltimate == InitUltimate /\ [][NextUltimate]_vars

\* C32: after a file_transfer_start from A that names a registered receiver B, a
\* file_chunk from A for the transfer_id returned is forwarded to B, and a
\* transfer_complete for it sends transfer_completed to A.
C32_StartedTransferRelays ==
    server = "ultimate_main" =>
      \A s \in OpenSockets, b \in DOMAIN active_connections, u \in 1..MaxStreams :
        ( /\ CanSend(s)
          /\ active_connections[sessions[s].client_id] = s
          /\ CanSend(active_connections[b])
          /\ UuidId(u) \notin DOMAIN active_streams ) =>
          LET id == UuidId(u)
              start == [type |-> "file_transfer_start", receiver_id |-> b,
                        file_info |-> DictFileInfo(MaxChunks), method |-> "auto"]
              started == handle_ultimate_file_transfer_start(active_streams, s, start, u)
              chunk == handle_optimized_file_chunk(started.streams, s,
                            ChunkMsg(Some(id), "data", Some(0), Some(MaxChunks)))
              complete == ultimate_handle_transfer_complete(chunk.streams, s, CompleteMsg(id))
          IN /\ \E i \in Delivered(chunk.out, "file_chunk") :
                   chunk.out[i].sock = active_connections[b]
             /\ \E i \in Delivered(complete.out, "transfer_completed") :
                   complete.out[i].sock = s

\* ------------------------------- sharezidi-v3-python/ultimate_server_test.py
\* Its transfers live in the module's dictionary active_transfers. Every send goes
\* through manager.send_personal_message, which swallows a failed send, and every
\* handler catches its own exceptions, so no handler ends the session.
InitTest ==
    /\ server = "ultimate_server_test"
    /\ sessions = [s \in Sockets |-> [pc |-> "new", client_id |-> ""]]
    /\ broken = {}
    /\ active_connections = << >>
    /\ client_info = << >>
    /\ device_ids = << >>
    /\ active_transfers = << >>
    /\ transfer_stats = << >>
    /\ webrtc_connections = << >>
    /\ rtc_transfers = << >>
    /\ rtc_active_transfers = {}
    /\ NoBroadcasts
    /\ NoFrames
    /\ NoEngines

\* ConnectionManager.send_personal_message(message, client_id): nothing for an
\* unknown id, and a failed send is logged
send_personal_message(msg, client_id) ==
    [send_to_client(client_id, msg) EXCEPT !.fn = "send_personal_message"]

\* websocket_endpoint up to the try: manager.connect registers the client with its
\* client_info and sends it connection_established
TestConnect(s, c) ==
    /\ server = "ultimate_server_test"
    /\ sessions[s].pc = "new"
    /\ \A t \in Sockets : t < s => sessions[t].pc # "new"
    /\ s = 1 => c = "alice"
    /\ sessions' = [sessions EXCEPT ![s] = [pc |-> "open", client_id |-> c]]
    /\ active_connections' = Put(active_connections, c, s)
    /\ client_info' = Put(client_info, c, [session |-> s])
    /\ UNCHANGED <<server, peers, engines, fanout, queues, broken, device_ids, managers>>

\* receive_text raises WebSocketDisconnect, or json.loads raises: manager.disconnect
TestDisconnect(s) ==
    /\ server = "ultimate_server_test"
    /\ sessions[s].pc = "open"
    /\ EndSession(s)
    /\ UNCHANGED <<server, peers, engines, fanout, queues, broken, device_ids, managers>>

\* the result of a handler: active_transfers after it and the sends it made
TestResult(tr, out) == [tr |-> tr, out |-> out]

TestHandle(s, r) ==
    /\ server = "ultimate_server_test"
    /\ sessions[s].pc = "open"
    /\ active_transfers' = r.tr
    /\ UNCHANGED <<server, peers, engines, fanout, queues, registry, broken, device_ids,
                   transfer_stats, webrtc_connections>>

TestStartMsgs ==
    {[type |-> "start_transfer", receiver_id |-> r, file_info |-> f] :
        r \in Clients \cup {""}, f \in FileInfos}

\* handle_start_transfer; u is the value of uuid.uuid4()
handle_start_transfer(s, m, u) ==
    LET client_id == sessions[s].client_id
        transfer_id == UuidId(u)
        missing == send_personal_message(ErrorMsg("Missing receiver_id or file_info"), client_id)
        absent == send_personal_message(ErrorMsg("Receiver not connected"), client_id)
        notify == send_personal_message(
                      [type |-> "incoming_transfer", transfer_id |-> transfer_id,
                       sender_id |-> client_id, file_info |-> m.file_info], m.receiver_id)
        confirm == send_personal_message(
                       [type |-> "transfer_started", transfer_id |-> transfer_id,
                        status |-> "pending"], client_id)
    IN IF m.receiver_id = "" \/ m.file_info.kind = "none"
       THEN TestResult(active_transfers, <<missing>>)
       ELSE IF m.receiver_id \notin DOMAIN active_connections
       THEN TestResult(active_transfers, <<absent>>)
       ELSE TestResult(Put(active_transfers, transfer_id,
                           [id |-> transfer_id, sender_id |-> client_id,
                            receiver_id |-> m.receiver_id, file_info |-> m.file_info,
                            status |-> "pending", progress |-> Num(0)]),
                       <<notify, confirm>>)

\* min(100, p) for the number p
Min100(p) == IF p[1] > 100 * p[2] THEN Num(100) ELSE p

\* the test of line 263 (and a handler that leaves it out)
from_anyone(transfer, client_id) == TRUE

from_sender(transfer, client_id) == client_id = transfer.sender_id

\* handle_file_chunk of ultimate_server_test. After the forward, file_info.get raises
\* for a file_info that is a string and chunk_index + 1 for a missing chunk_index:
\* the handler's except logs it, and progress stays as it was.
test_handle_file_chunk(s, m) ==
    LET client_id == sessions[s].client_id
        known == m.transfer_id # None /\ m.transfer_id[1] \in DOMAIN active_transfers
        transfer_id == m.transfer_id[1]
        transfer == active_transfers[transfer_id]
        not_found == send_personal_message(ErrorMsg("Transfer not found"), client_id)
        forward == send_personal_message(
                       [type |-> "file_chunk", transfer_id |-> transfer_id,
                        chunk_data |-> m.chunk_data, chunk_index |-> m.chunk_index],
                       transfer.receiver_id)
        computes == /\ transfer.file_info.kind = "dict"
                    /\ m.chunk_index # None
                    /\ transfer.file_info.total_chunks # 0
        progress == Min100(Frac((m.chunk_index[1] + 1) * 100, transfer.file_info.total_chunks))
        report == send_personal_message(
                      [type |-> "transfer_progress", transfer_id |-> transfer_id,
                       progress |-> progress, chunk_index |-> m.chunk_index], client_id)
    IN IF ~known THEN TestResult(active_transfers, <<not_found>>)
       ELSE IF ~from_sender(transfer, client_id) THEN TestResult(active_transfers, << >>)
       ELSE IF ~computes THEN TestResult(active_transfers, <<forward>>)
       ELSE TestResult([active_transfers EXCEPT ![transfer_id].progress = progress],
                       <<forward, report>>)

\* handle_transfer_complete of ultimate_server_test
test_handle_transfer_complete(s, m) ==
    LET transfer_id == m.transfer_id[1]
        transfer == active_transfers[transfer_id]
        done == [type |-> "transfer_completed", transfer_id |-> transfer_id,
                 status |-> "completed"]
    IN IF transfer_id \notin DOMAIN active_transfers THEN TestResult(active_transfers, << >>)
       ELSE TestResult([active_transfers EXCEPT ![transfer_id].status = "completed",
                                                ![transfer_id].progress = Num(100)],
                       <<send_personal_message(done, transfer.sender_id),
                         send_personal_message(done, transfer.receiver_id)>>)

\* uuid.uuid4() does not return an id that is in use
TestStartTransfer(s) ==
    \E m \in TestStartMsgs, u \in 1..MaxUuids :
        /\ UuidId(u) \notin DOMAIN active_transfers
        /\ TestHandle(s, handle_start_transfer(s, m, u))

TestFileChunk(s) ==
    \E m \in FileChunkMsgs : TestHandle(s, test_handle_file_chunk(s, m))

TestTransferComplete(s) ==
    \E m \in TransferCompleteMsgs : TestHandle(s, test_handle_transfer_complete(s, m))

NextTest ==
    \/ \E s \in Sockets, c \in Clients : TestConnect(s, c)
    \/ \E s \in Sockets : Drop(s)
    \/ \E s \in Sockets : TestDisconnect(s)
    \/ \E s \in Sockets : TestStartTransfer(s)
    \/ \E s \in Sockets : TestFileChunk(s)
    \/ \E s \in Sockets : TestTransferComplete(s)

SpecTest == InitTest /\ [][NextTest]_vars

\* C35: a file_chunk that names an existing transfer and comes from a client other
\* than its sender_id is not forwarded, sends nothing to the receiver and leaves
\* the progress of the transfer as it was.
C35_OnlySenderChunksCount ==
    server = "ultimate_server_test" =>
      \A s \in OpenSockets, m \in FileChunkMsgs :
        (m.transfer_id # None /\ m.transfer_id[1] \in DOMAIN active_transfers) =>
          LET transfer == active_transfers[m.transfer_id[1]]
              r == test_handle_file_chunk(s, m)
          IN sessions[s].client_id # transfer.sender_id =>
                /\ \A i \in DOMAIN r.out :
                      /\ r.out[i].msg.type # "file_chunk"
                      /\ r.out[i].client_id # transfer.receiver_id
                /\ r.tr[m.transfer_id[1]].progress = transfer.progress
                /\ r.tr = active_transfers

\* a transfer whose sender's chunk has moved its progress, whose receiver can be
\* reached, and an open session of a client that is not its sender
C35_Witness ==
    /\ server = "ultimate_server_test"
    /\ \E s \in OpenSockets, id \in DOMAIN active_transfers :
          /\ sessions[s].client_id # active_transfers[id].sender_id
          /\ CanSend(s)
          /\ active_transfers[id].status = "pending"
          /\ active_transfers[id].progress # Num(0)
          /\ active_transfers[id].receiver_id \in DOMAIN active_connections
          /\ CanSend(active_connections[active_transfers[id].receiver_id])
====
